---------------------------- MODULE Spec2Model ----------------------------
(***************************************************************************)
(* A model of the messaging pipeline of bailey-archives/networking:        *)
(*   - the wire codec (NetworkSerializer, MessagePayload),                 *)
(*   - the incremental NetworkReader,                                      *)
(*   - the NetworkWriter (outgoing message register),                      *)
(*   - the Client (connection controller).                                 *)
(* Buffers are sequences of bytes (0..255); strings are sequences of code  *)
(* points; JavaScript promises and timers are explicit state.              *)
(***************************************************************************)
EXTENDS Integers, Sequences, FiniteSets, TLC

VARIABLES
    cm,         \* codec: the Message handed to serializeMessage
    cOut,       \* codec: result of serializeMessage(cm), then parseMessage
    rd,         \* NetworkReader: its fields, its suspended parse routines, its events
    feed,       \* the byte stream of the current connection (input)
    pos,        \* how many bytes of feed have been written to the reader
    plan,       \* the messages whose serializations make up feed
    wr,         \* NetworkWriter: its fields, its timers, what it gave the transport
    cl          \* Client: its fields and its transport

vars == <<cm, cOut, rd, feed, pos, plan, wr, cl>>

codecVars == <<cm, cOut>>
readerVars == <<rd, feed, pos, plan>>
netVars == <<wr, cl>>

(***************************************************************************)
(* Bounds of the model.                                                    *)
(***************************************************************************)
MaxChunk == 3
MaxBuffers == 2
MaxQueue == 6
MaxPlan == 2
MaxClears == 1
MaxPayloads == 2
MaxMsgs == 1
MaxLog == 3
MaxInputs == 2
MaxConnects == 2

(***************************************************************************)
(* Program constants.                                                      *)
(***************************************************************************)
Mark0 == 221
Mark1 == 240
TypeSystem == 0
TypeEvent == 1
TypeBinary == 2
TypeRequest == 3
TypeResponse == 4
PayloadBinary == 0
PayloadJson == 1
JsonFormat == 0

(***************************************************************************)
(* Generic helpers.                                                        *)
(***************************************************************************)
Pow2(n) == 2 ^ n

Min(a, b) == IF a < b THEN a ELSE b

IsPrefix(s, t) == Len(s) <= Len(t) /\ SubSeq(t, 1, Len(s)) = s

\* Buffer.concat: the concatenation of a sequence of sequences
RECURSIVE Flatten(_)
Flatten(ss) ==
    IF Len(ss) = 0 THEN <<>>
    ELSE IF Len(ss) = 1 THEN ss[1]
    ELSE LET h == Len(ss) \div 2
         IN  Flatten(SubSeq(ss, 1, h)) \o Flatten(SubSeq(ss, h + 1, Len(ss)))

\* Buffer.slice / subarray(start, end) with 0-based offsets, clamped to the buffer.
Slice(buf, start, end) ==
    LET s == Min(start, Len(buf))
        e == Min(end, Len(buf))
    IN  IF e <= s THEN <<>> ELSE SubSeq(buf, s + 1, e)

(***************************************************************************)
(* UTF-8 for code points below 2048 (one and two byte sequences).  A byte  *)
(* that starts no such sequence decodes to U+FFFD.                         *)
(***************************************************************************)
Utf8Char(cp) == IF cp < 128 THEN <<cp>> ELSE <<192 + (cp \div 64), 128 + (cp % 64)>>

\* Buffer.from(string)
Utf8Encode(str) == Flatten([i \in 1..Len(str) |-> Utf8Char(str[i])])

Utf8Lead(b) == b >= 194 /\ b <= 223
Utf8Cont(b) == b >= 128 /\ b <= 191

\* buffer.toString(): a lead byte followed by a continuation byte is one character,
\* an ASCII byte is itself, any other byte is U+FFFD
Utf8Decode(bytes) ==
    LET n == Len(bytes)
        Consumed(i) == i > 1 /\ Utf8Cont(bytes[i]) /\ Utf8Lead(bytes[i - 1])
        CharAt(i) ==
            IF bytes[i] < 128 THEN bytes[i]
            ELSE IF Utf8Lead(bytes[i]) /\ i < n /\ Utf8Cont(bytes[i + 1])
                 THEN (bytes[i] - 192) * 64 + (bytes[i + 1] - 128)
                 ELSE 65533
    IN  Flatten([i \in 1..n |-> IF Consumed(i) THEN <<>> ELSE <<CharAt(i)>>])

(***************************************************************************)
(* Payload data.  Every payload datum is a record [k, v]:                  *)
(*   k = "bin"   : a Buffer holding the bytes v                            *)
(*   k = "zeros" : Buffer.alloc(v[1]), a Buffer of v[1] zero bytes         *)
(*   k = "num"   : the JSON number v[1] (0..9)                             *)
(*   k = "arr"   : the JSON array of the numbers v                         *)
(*   k = "none"  : no value (a failed decode)                              *)
(***************************************************************************)
Bin(bytes) == [k |-> "bin", v |-> bytes]
Zeros(n) == [k |-> "zeros", v |-> <<n>>]
JNum(n) == [k |-> "num", v |-> <<n>>]
JArr(ns) == [k |-> "arr", v |-> ns]
NoData == [k |-> "none", v |-> <<>>]

BufLen(d) == IF d.k = "zeros" THEN d.v[1] ELSE Len(d.v)

BufBytes(d) == IF d.k = "zeros" THEN [i \in 1..d.v[1] |-> 0] ELSE d.v

IsDigit(b) == b >= 48 /\ b <= 57

RECURSIVE JoinDigits(_)
JoinDigits(ns) ==
    IF ns = <<>> THEN <<>>
    ELSE IF Len(ns) = 1 THEN <<48 + ns[1]>>
    ELSE <<48 + ns[1], 44>> \o JoinDigits(Tail(ns))

\* JSON.stringify on numbers 0..9 and arrays of them.
JsonStringify(j) == IF j.k = "num" THEN <<48 + j.v[1]>> ELSE <<91>> \o JoinDigits(j.v) \o <<93>>

\* JSON.parse on the texts JsonStringify produces; any other text is a SyntaxError.
JsonParse(text) ==
    LET n == Len(text)
        inner == SubSeq(text, 2, n - 1)
        m == Len(inner)
    IN  IF n = 1 /\ IsDigit(text[1]) THEN [ok |-> TRUE, val |-> JNum(text[1] - 48)]
        ELSE IF n >= 2 /\ text[1] = 91 /\ text[n] = 93 /\ (m = 0 \/ m % 2 = 1)
                /\ \A i \in 1..m : IF i % 2 = 1 THEN IsDigit(inner[i]) ELSE inner[i] = 44
             THEN [ok |-> TRUE, val |-> JArr([i \in 1..((m + 1) \div 2) |-> inner[2 * i - 1] - 48])]
             ELSE [ok |-> FALSE, val |-> NoData]

(***************************************************************************)
(* MessagePayload                                                          *)
(***************************************************************************)
\* MessagePayload._encodeJsonToBuffer
EncodeJsonToBuffer(j) == <<JsonFormat>> \o JsonStringify(j)

\* MessagePayload._decodeJsonFromBuffer
DecodeJsonFromBuffer(data) ==
    IF Len(data) = 0 \/ data[1] # JsonFormat THEN [ok |-> FALSE, val |-> NoData]
    ELSE JsonParse(Tail(data))

\* MessagePayload.toBuffer: the payload's bytes as a datum ("bin" or "zeros")
ToBuffer(p) ==
    IF p.type = PayloadBinary THEN p.data ELSE Bin(EncodeJsonToBuffer(p.data))

\* MessagePayload.from(type, data)
PayloadFrom(type, data) ==
    IF type = PayloadBinary THEN [ok |-> TRUE, val |-> [type |-> PayloadBinary, data |-> Bin(data)]]
    ELSE IF type = PayloadJson
         THEN LET j == DecodeJsonFromBuffer(data)
              IN  [ok |-> j.ok, val |-> [type |-> PayloadJson, data |-> j.val]]
         ELSE [ok |-> FALSE, val |-> [type |-> type, data |-> NoData]]

\* new Message(id, type, channel), payloads added with addPayload
Message(id, type, channel, payloads) ==
    [id |-> id, type |-> type, channel |-> channel, payloads |-> payloads]

NoMessage == Message([hi |-> 0, lo |-> 0], 0, <<>>, <<>>)

(***************************************************************************)
(* Buffer integer access (big-endian).  A write of a value that does not   *)
(* fit the width throws a RangeError: the write operators are only applied *)
(* to values FitsUInt accepts.                                             *)
(***************************************************************************)
FitsUInt(value, byteLength) == value >= 0 /\ value < Pow2(8 * byteLength)

WriteUIntBE(value, byteLength) ==
    [i \in 1..byteLength |-> (value \div Pow2(8 * (byteLength - i))) % 256]

RECURSIVE ReadUIntBE(_, _, _)
ReadUIntBE(buf, offset, byteLength) ==
    IF byteLength = 0 THEN 0
    ELSE ReadUIntBE(buf, offset, byteLength - 1) * 256 + buf[offset + byteLength]

\* A 32-bit message id is kept as its two 16-bit halves, id = hi * 65536 + lo, so
\* that every id a header can carry is a value of the model; hi > 65535 stands for
\* a number that does not fit 32 bits.
U32(hi, lo) == [hi |-> hi, lo |-> lo]

FitsUInt32(id) == FitsUInt(id.hi, 2) /\ FitsUInt(id.lo, 2)

WriteUInt32BE(id) == WriteUIntBE(id.hi, 2) \o WriteUIntBE(id.lo, 2)

ReadUInt32BE(buf, offset) == U32(ReadUIntBE(buf, offset, 2), ReadUIntBE(buf, offset + 2, 2))

(***************************************************************************)
(* NetworkSerializer                                                       *)
(***************************************************************************)
\* What serializeMessage can encode: every Buffer.write* call gets a value of its width.
Encodable(m) ==
    /\ FitsUInt32(m.id)
    /\ FitsUInt(m.type, 1)
    /\ FitsUInt(Len(Utf8Encode(m.channel)), 1)
    /\ FitsUInt(Len(m.payloads), 1)
    /\ \A i \in 1..Len(m.payloads) : FitsUInt(BufLen(ToBuffer(m.payloads[i])), 3)

\* NetworkSerializer._getHeaderBuffer
GetHeaderBuffer(m) ==
    LET channel == Utf8Encode(m.channel)
        n == Len(channel)
        rewritten == Utf8Encode(Utf8Decode(channel))
        copied == [i \in 1..n |-> IF i <= Len(rewritten) THEN rewritten[i] ELSE 0]
    IN  WriteUInt32BE(m.id) \o WriteUIntBE(m.type, 1) \o WriteUIntBE(n, 1)
            \o copied \o WriteUIntBE(Len(m.payloads), 1)

\* NetworkSerializer._getPayloadBuffers
GetPayloadBuffers(m) ==
    [i \in 1..Len(m.payloads) |->
        LET data == ToBuffer(m.payloads[i])
        IN  <<m.payloads[i].type % 256>> \o WriteUIntBE(BufLen(data), 3) \o BufBytes(data)]

\* NetworkSerializer.serializeMessage: [ok |-> FALSE] when a Buffer write throws
SerializeMessage(m) ==
    IF ~Encodable(m) THEN [ok |-> FALSE, bytes |-> <<>>]
    ELSE [ok |-> TRUE, bytes |-> <<Mark0, Mark1>> \o GetHeaderBuffer(m) \o Flatten(GetPayloadBuffers(m))]

\* A variant of _parseHeaderFromBuffer that starts the payloads one byte early
ParseHeaderShifted(buffer) ==
    IF Len(buffer) < 6 \/ Len(buffer) < 7 + buffer[6]
    THEN [ok |-> FALSE, id |-> U32(0, 0), type |-> 0, channel |-> <<>>, payloadCount |-> 0, payloadStartOffset |-> 0]
    ELSE LET channelNameLength == buffer[6]
         IN  [ok |-> TRUE,
              id |-> ReadUInt32BE(buffer, 0),
              type |-> buffer[5],
              channel |-> Utf8Decode(Slice(buffer, 6, 6 + channelNameLength)),
              payloadCount |-> buffer[7 + channelNameLength],
              payloadStartOffset |-> 6 + channelNameLength]

\* NetworkSerializer._parseHeaderFromBuffer; reads past the end throw a RangeError
ParseHeaderFromBuffer(buffer) ==
    IF Len(buffer) < 6 \/ Len(buffer) < 7 + buffer[6]
    THEN [ok |-> FALSE, id |-> U32(0, 0), type |-> 0, channel |-> <<>>, payloadCount |-> 0, payloadStartOffset |-> 0]
    ELSE LET channelNameLength == buffer[6]
         IN  [ok |-> TRUE,
              id |-> ReadUInt32BE(buffer, 0),
              type |-> buffer[5],
              channel |-> Utf8Decode(Slice(buffer, 6, 6 + channelNameLength)),
              payloadCount |-> buffer[7 + channelNameLength],
              payloadStartOffset |-> 7 + channelNameLength]

\* One iteration of the loop of _parsePayloadsFromBuffer; st is [ok, offset, acc]
ParsePayloadAt(buffer, st) ==
    IF ~st.ok THEN st
    ELSE IF Len(buffer) < st.offset + 4 THEN [st EXCEPT !.ok = FALSE]
    ELSE LET type == buffer[st.offset + 1]
             size == ReadUIntBE(buffer, st.offset + 1, 3)
             data == Slice(buffer, st.offset + 4, st.offset + size + 4)
             p == PayloadFrom(type, data)
         IN  IF ~p.ok THEN [st EXCEPT !.ok = FALSE]
             ELSE [ok |-> TRUE, offset |-> st.offset + 4 + Len(data), acc |-> Append(st.acc, p.val)]

\* n iterations of that loop, the second half of them after the first half
RECURSIVE ParsePayloadLoop(_, _, _)
ParsePayloadLoop(buffer, st, n) ==
    IF n = 0 THEN st
    ELSE IF n = 1 THEN ParsePayloadAt(buffer, st)
    ELSE LET first == ParsePayloadLoop(buffer, st, n \div 2)
         IN  IF ~first.ok THEN first ELSE ParsePayloadLoop(buffer, first, n - n \div 2)

\* NetworkSerializer._parsePayloadsFromBuffer
ParsePayloadsFromBuffer(buffer, count) ==
    LET st == ParsePayloadLoop(buffer, [ok |-> TRUE, offset |-> 0, acc |-> <<>>], count)
    IN  [ok |-> st.ok, val |-> st.acc]

\* NetworkSerializer.parseMessage
ParseMessage(buffer) ==
    IF Len(buffer) < 2 \/ buffer[1] # Mark0 \/ buffer[2] # Mark1 THEN [ok |-> FALSE, msg |-> NoMessage]
    ELSE LET header == ParseHeaderFromBuffer(Slice(buffer, 2, Len(buffer)))
         IN  IF ~header.ok THEN [ok |-> FALSE, msg |-> NoMessage]
             ELSE LET payloads == ParsePayloadsFromBuffer(
                                      Slice(buffer, 2 + header.payloadStartOffset, Len(buffer)),
                                      header.payloadCount)
                  IN  IF ~payloads.ok THEN [ok |-> FALSE, msg |-> NoMessage]
                      ELSE [ok |-> TRUE,
                            msg |-> Message(header.id, header.type, header.channel, payloads.val)]

(***************************************************************************)
(* NetworkReader.  The reader is a record:                                 *)
(*   queue            _queue                                               *)
(*   queueLength      _queueLength                                         *)
(*   queueHeadOffset  _queueHeadOffset                                     *)
(*   requests         _queueConsumeRequests: [length, rid]                 *)
(*   index            _parsingConnectionIndex                              *)
(*   parsing          _parsing                                             *)
(*   rts              the _parseData() calls that are suspended at an      *)
(*                    await, by routine id; a routine whose promise can    *)
(*                    no longer be resolved is dropped                     *)
(*   out              the events emitted so far                            *)
(* A routine is "ready" when the promise it awaits is resolved (buf holds  *)
(* the bytes) and its continuation has not run yet, "wait" when its        *)
(* request is queued.  Its field `routine` is the constant of that name in *)
(* _parseData; eps is the set of values _parsingConnectionIndex had when   *)
(* the bytes it has consumed were written.                                 *)
(***************************************************************************)
NewReader ==
    [queue |-> <<>>, queueLength |-> 0, queueHeadOffset |-> 0, requests |-> <<>>,
     index |-> 0, parsing |-> FALSE, rts |-> <<>>, out |-> <<>>]

NewRoutine(index) ==
    [routine |-> index, pc |-> "mark", st |-> "wait", buf |-> <<>>,
     id |-> U32(0, 0), type |-> 0, chanLen |-> 0, channel |-> <<>>,
     numPayloads |-> 0, payloads |-> <<>>, ptype |-> 0, psize |-> 0, eps |-> {}]

\* A variant of the loop of _consumeBytes that takes the bytes from the start of
\* the head buffer, not from _queueHeadOffset
RECURSIVE ConsumeLoopFromStart(_, _, _)
ConsumeLoopFromStart(r, need, acc) ==
    IF need = 0 THEN [r |-> r, bytes |-> acc.bytes, eps |-> acc.eps]
    ELSE LET head == r.queue[1]
             headBytesAvailable == Len(head) - r.queueHeadOffset
             headBytesToTake == IF headBytesAvailable > need THEN need ELSE headBytesAvailable
             headBytesRemaining == headBytesAvailable - headBytesToTake
             buffer == Slice(head, 0, headBytesToTake)
             r1 == [r EXCEPT !.queueLength = @ - headBytesToTake,
                             !.queue = IF headBytesRemaining = 0 THEN Tail(@) ELSE @,
                             !.queueHeadOffset = IF headBytesRemaining = 0 THEN 0 ELSE @ + headBytesToTake]
         IN  ConsumeLoopFromStart(r1, need - Len(buffer),
                                  [bytes |-> acc.bytes \o buffer,
                                   eps |-> IF Len(buffer) > 0 THEN {r.index} ELSE acc.eps])

\* The loop of NetworkReader._consumeBytes: takes `need` more bytes from the head
\* of the queue; acc is [bytes, eps] taken so far.
RECURSIVE ConsumeLoop(_, _, _)
ConsumeLoop(r, need, acc) ==
    IF need = 0 THEN [r |-> r, bytes |-> acc.bytes, eps |-> acc.eps]
    ELSE LET head == r.queue[1]
             headBytesAvailable == Len(head) - r.queueHeadOffset
             headBytesToTake == IF headBytesAvailable > need THEN need ELSE headBytesAvailable
             headBytesRemaining == headBytesAvailable - headBytesToTake
             buffer == Slice(head, r.queueHeadOffset, r.queueHeadOffset + headBytesToTake)
             r1 == [r EXCEPT !.queueLength = @ - headBytesToTake,
                             !.queue = IF headBytesRemaining = 0 THEN Tail(@) ELSE @,
                             !.queueHeadOffset = IF headBytesRemaining = 0 THEN 0 ELSE @ + headBytesToTake]
         IN  ConsumeLoop(r1, need - Len(buffer),
                         [bytes |-> acc.bytes \o buffer,
                          eps |-> IF Len(buffer) > 0 THEN {r.index} ELSE acc.eps])

\* NetworkReader._consumeBytes(length), called with queueLength >= length
ConsumeBytes(r, length) == ConsumeLoop(r, length, [bytes |-> <<>>, eps |-> {}])

\* The promise of routine rid is resolved with the result of _consumeBytes(length)
Fulfil(r, rid, length) ==
    LET c == ConsumeBytes(r, length)
    IN  [c.r EXCEPT !.rts[rid].st = "ready", !.rts[rid].buf = c.bytes,
                    !.rts[rid].eps = @ \cup c.eps]

\* NetworkReader._getBytes(length), awaited by routine rid
GetBytes(r, rid, length) ==
    IF r.queueLength >= length THEN Fulfil(r, rid, length)
    ELSE [r EXCEPT !.requests = Append(@, [length |-> length, rid |-> rid]),
                   !.rts[rid].st = "wait", !.rts[rid].buf = <<>>]

FreshRid(r) == CHOOSE i \in 1..(Cardinality(DOMAIN r.rts) + 1) : i \notin DOMAIN r.rts

\* NetworkReader._parseData, up to its first await
ParseData(r) ==
    IF r.parsing \/ r.queueLength = 0 THEN r
    ELSE LET rid == FreshRid(r)
         IN  GetBytes([r EXCEPT !.parsing = TRUE, !.rts = (rid :> NewRoutine(r.index)) @@ @], rid, 2)

\* A variant of write that fulfils a request only when more bytes than it asks
\* for are queued
ReaderWriteLate(r, bytes) ==
    LET r1 == [r EXCEPT !.queueLength = @ + Len(bytes),
                        !.queue = Append(@, bytes)]
    IN  IF Len(r1.requests) > 0
        THEN LET request == r1.requests[1]
             IN  IF r1.queueLength > request.length
                 THEN Fulfil([r1 EXCEPT !.requests = Tail(@)], request.rid, request.length)
                 ELSE r1
        ELSE IF r1.queueLength > 0 THEN ParseData(r1) ELSE r1

\* NetworkReader.write(bytes)
ReaderWrite(r, bytes) ==
    LET r1 == [r EXCEPT !.queueLength = @ + Len(bytes),
                        !.queue = Append(@, bytes)]
    IN  IF Len(r1.requests) > 0
        THEN LET request == r1.requests[1]
             IN  IF r1.queueLength >= request.length
                 THEN Fulfil([r1 EXCEPT !.requests = Tail(@)], request.rid, request.length)
                 ELSE r1
        ELSE IF r1.queueLength > 0 THEN ParseData(r1) ELSE r1

DropRoutines(rts, gone) == [i \in DOMAIN rts \ gone |-> rts[i]]

\* NetworkReader.clear(); the routines whose requests it discards never resume
ReaderClear(r) ==
    [r EXCEPT !.queue = <<>>, !.queueLength = 0, !.queueHeadOffset = 0, !.requests = <<>>,
              !.parsing = FALSE, !.index = @ + 1,
              !.rts = DropRoutines(@, {i \in DOMAIN @ : @[i].st = "wait"})]

Event(kind, msg, eps) == [kind |-> kind, msg |-> msg, eps |-> eps]

\* A variant of the end of _parseData that does not call _parseData again
SettleNoRestart(r, rid, kind, msg) ==
    LET rt == r.rts[rid]
        r1 == IF r.index = rt.routine
              THEN [r EXCEPT !.out = Append(@, [kind |-> kind, msg |-> msg, eps |-> rt.eps])]
              ELSE r
    IN  [r1 EXCEPT !.parsing = FALSE, !.rts = DropRoutines(@, {rid})]

\* A variant of the end of _parseData that emits whatever _parsingConnectionIndex is
SettleAlways(r, rid, kind, msg) ==
    LET rt == r.rts[rid]
        r1 == [r EXCEPT !.out = Append(@, [kind |-> kind, msg |-> msg, eps |-> rt.eps])]
    IN  ParseData([r1 EXCEPT !.parsing = FALSE, !.rts = DropRoutines(@, {rid})])

\* The end of NetworkReader._parseData (lines 115-126): emit unless clear() was
\* called since the routine started, then restart.
Settle(r, rid, kind, msg) ==
    LET rt == r.rts[rid]
        r1 == IF r.index = rt.routine
              THEN [r EXCEPT !.out = Append(@, Event(kind, msg, rt.eps))]
              ELSE r
    IN  ParseData([r1 EXCEPT !.parsing = FALSE, !.rts = DropRoutines(@, {rid})])

\* A continuation that has reached the end of _parseData, before it emits
Held(r, rid, kind, msg) == [settled |-> TRUE, r |-> r, kind |-> kind, msg |-> msg]

\* The end of _parseData, run at once for a reader on its own, held for the
\* Client whose listeners it calls
EndOf(r, rid, kind, msg, held) ==
    IF held THEN Held(r, rid, kind, msg) ELSE Settle(r, rid, kind, msg)

\* One continuation of a ready routine: from the await it is at to the next one,
\* or to the end of _parseData
ContinueWith(r, rid, held) ==
    LET rt == r.rts[rid]
        buf == rt.buf
    IN  CASE rt.pc = "mark" ->
                IF buf[1] # Mark0 \/ buf[2] # Mark1 THEN EndOf(r, rid, "error", NoMessage, held)
                ELSE GetBytes([r EXCEPT !.rts[rid].pc = "head"], rid, 6)
          [] rt.pc = "head" ->
                GetBytes([r EXCEPT !.rts[rid].pc = "chan", !.rts[rid].id = ReadUInt32BE(buf, 0),
                                   !.rts[rid].type = buf[5], !.rts[rid].chanLen = buf[6]],
                         rid, 1 + buf[6])
          [] rt.pc = "chan" ->
                LET r1 == [r EXCEPT !.rts[rid].channel = Utf8Decode(Slice(buf, 0, rt.chanLen)),
                                    !.rts[rid].numPayloads = buf[rt.chanLen + 1]]
                IN  IF 0 < buf[rt.chanLen + 1]
                    THEN GetBytes([r1 EXCEPT !.rts[rid].pc = "phead"], rid, 4)
                    ELSE EndOf(r1, rid, "message",
                               Message(rt.id, rt.type, r1.rts[rid].channel, <<>>), held)
          [] rt.pc = "phead" ->
                GetBytes([r EXCEPT !.rts[rid].pc = "pdata", !.rts[rid].ptype = buf[1],
                                   !.rts[rid].psize = ReadUIntBE(buf, 1, 3)],
                         rid, ReadUIntBE(buf, 1, 3))
          [] rt.pc = "pdata" ->
                LET p == PayloadFrom(rt.ptype, buf)
                    payloads == Append(rt.payloads, p.val)
                IN  IF ~p.ok THEN EndOf(r, rid, "error", NoMessage, held)
                    ELSE IF Len(payloads) < rt.numPayloads
                         THEN GetBytes([r EXCEPT !.rts[rid].pc = "phead",
                                                 !.rts[rid].payloads = payloads], rid, 4)
                         ELSE EndOf(r, rid, "message",
                                    Message(rt.id, rt.type, rt.channel, payloads), held)

\* One continuation of a ready routine of a reader on its own
Continue(r, rid) == ContinueWith(r, rid, FALSE)

Ready(r) == {i \in DOMAIN r.rts : r.rts[i].st = "ready"}

(***************************************************************************)
(* PromiseCompletionSource, as the writer uses it: created pending, settled*)
(* by the first setResult or setError; calls lists the values of the       *)
(* setResult and setError calls made on it.                                *)
(***************************************************************************)
NewSource == [state |-> "pending", value |-> "none", calls |-> <<>>]

IsFinished(source) == source.state # "pending"

SetResult(source, value) ==
    IF IsFinished(source) THEN [source EXCEPT !.calls = Append(@, value)]
    ELSE [state |-> "resolved", value |-> value, calls |-> Append(source.calls, value)]

SetError(source, error) ==
    IF IsFinished(source) THEN [source EXCEPT !.calls = Append(@, error)]
    ELSE [state |-> "rejected", value |-> error, calls |-> Append(source.calls, error)]

(***************************************************************************)
(* NetworkWriter.  The writer is a record:                                 *)
(*   connected          _connected                                         *)
(*   messages           the keys of the _messages map, in insertion order  *)
(*   data               the OutgoingMessage objects by message id; an      *)
(*                      object outlives its entry in _messages, the timer  *)
(*                      callbacks hold it                                  *)
(*   ackTimeouts        the keys of the _ackTimeouts map                   *)
(*   operationTimeouts  the keys of the _operationTimeouts map             *)
(*   live               the timers that are scheduled: <<id, "ack">> and   *)
(*                      <<id, "op">>; deleting a map entry does not cancel *)
(*                      the timer, clearTimeout does                       *)
(*   log                the ids of the messages handed to transport.send   *)
(*   errors             the 'error' events the writer has emitted          *)
(***************************************************************************)
NewWriter ==
    [connected |-> FALSE, messages |-> <<>>, data |-> <<>>,
     ackTimeouts |-> {}, operationTimeouts |-> {}, live |-> {},
     log |-> <<>>, errors |-> <<>>]

InRegister(w, id) == \E i \in 1..Len(w.messages) : w.messages[i] = id

\* Map.delete(id) on _messages
Unregister(w, id) == [w EXCEPT !.messages = SelectSeq(@, LAMBDA k : k # id)]

\* A variant of send that writes to the transport also when disconnected
WriterSendAlways(w, id) == [w EXCEPT !.log = Append(@, id)]

\* What NetworkWriter.send returns
SendReturns(w) == w.connected

\* NetworkWriter.send: the writer after the call; the call returns w.connected
WriterSend(w, id) == IF w.connected THEN [w EXCEPT !.log = Append(@, id)] ELSE w

\* NetworkWriter._setTimeouts
SetTimeouts(w, id) ==
    LET d == w.data[id]
        w1 == IF d.ackTimeout > 0
              THEN [w EXCEPT !.ackTimeouts = @ \cup {id}, !.live = @ \cup {<<id, "ack">>}]
              ELSE w
    IN  IF d.type = TypeRequest /\ d.operationTimeout > 0
        THEN [w1 EXCEPT !.operationTimeouts = @ \cup {id}, !.live = @ \cup {<<id, "op">>}]
        ELSE w1

\* NetworkWriter._sendMessage
SendMessage(w, id) ==
    IF w.connected
    THEN LET w1 == SetTimeouts([w EXCEPT !.data[id].sent = TRUE,
                                         !.data[id].acknowledged = FALSE], id)
         IN  [w1 EXCEPT !.log = Append(@, id)]
    ELSE w

\* NetworkWriter.queue(message, options)
WriterQueue(w, id, type, ackTimeout, operationTimeout) ==
    LET data == [acknowledged |-> FALSE, resolveOnAck |-> type # TypeRequest, sent |-> FALSE,
                 type |-> type, source |-> NewSource,
                 ackTimeout |-> ackTimeout, operationTimeout |-> operationTimeout]
        w1 == [w EXCEPT !.data = (id :> data) @@ @,
                        !.messages = IF InRegister(w, id) THEN @ ELSE Append(@, id)]
    IN  SendMessage(w1, id)

\* NetworkWriter._clearAllTimeouts
ClearAllTimeouts(w) ==
    [w EXCEPT !.live = @ \ ({<<id, "ack">> : id \in w.ackTimeouts}
                                \cup {<<id, "op">> : id \in w.operationTimeouts}),
              !.ackTimeouts = {}, !.operationTimeouts = {}]

\* A variant of setConnectionLost that drops the records, as setConnectionClosed does
SetConnectionLostDrop(w) ==
    IF w.connected
    THEN [ClearAllTimeouts([w EXCEPT !.connected = FALSE]) EXCEPT !.messages = <<>>]
    ELSE w

\* NetworkWriter.setConnectionLost
SetConnectionLost(w) ==
    IF w.connected THEN ClearAllTimeouts([w EXCEPT !.connected = FALSE]) ELSE w

\* A variant of the loop of setConnectionOpened that sends only on resumption
RECURSIVE ResendLoopResumed(_, _, _)
ResendLoopResumed(w, isResumed, n) ==
    IF n = 0 THEN w
    ELSE LET w1 == ResendLoopResumed(w, isResumed, n - 1)
             id == w.messages[n]
         IN  IF isResumed THEN SendMessage(w1, id) ELSE w1

\* A variant of the loop of setConnectionOpened that sends every record again
RECURSIVE ResendLoopAll(_, _, _)
ResendLoopAll(w, isResumed, n) ==
    IF n = 0 THEN w
    ELSE SendMessage(ResendLoopAll(w, isResumed, n - 1), w.messages[n])

\* The loop of setConnectionOpened over the first n entries of _messages
RECURSIVE ResendLoop(_, _, _)
ResendLoop(w, isResumed, n) ==
    IF n = 0 THEN w
    ELSE LET w1 == ResendLoop(w, isResumed, n - 1)
             id == w.messages[n]
         IN  IF ~w1.data[id].sent \/ isResumed THEN SendMessage(w1, id) ELSE w1

\* NetworkWriter.setConnectionOpened(isResumed)
SetConnectionOpened(w, isResumed) ==
    IF ~w.connected
    THEN ResendLoop([w EXCEPT !.connected = TRUE], isResumed, Len(w.messages))
    ELSE w

\* NetworkWriter.setConnectionClosed
SetConnectionClosed(w) ==
    IF w.connected
    THEN [ClearAllTimeouts([w EXCEPT !.connected = FALSE]) EXCEPT !.messages = <<>>]
    ELSE w

\* A variant of setMessageAcknowledged that resolves the completion of a request too
SetMessageAcknowledgedAll(w, id) ==
    IF InRegister(w, id) /\ ~w.data[id].acknowledged
    THEN [w EXCEPT !.data[id].acknowledged = TRUE,
                   !.live = IF id \in w.ackTimeouts THEN @ \ {<<id, "ack">>} ELSE @,
                   !.ackTimeouts = @ \ {id},
                   !.data[id].source = SetResult(@, "true")]
    ELSE w

\* NetworkWriter.setMessageAcknowledged(id)
SetMessageAcknowledged(w, id) ==
    IF InRegister(w, id) /\ ~w.data[id].acknowledged
    THEN [w EXCEPT !.data[id].acknowledged = TRUE,
                   !.live = IF id \in w.ackTimeouts THEN @ \ {<<id, "ack">>} ELSE @,
                   !.ackTimeouts = @ \ {id},
                   !.data[id].source = IF w.data[id].resolveOnAck THEN SetResult(@, "true") ELSE @]
    ELSE w

\* NetworkWriter.setMessageResponse(id, value)
SetMessageResponse(w, id, value) ==
    IF InRegister(w, id)
    THEN [Unregister(w, id) EXCEPT !.ackTimeouts = @ \ {id},
                                   !.operationTimeouts = @ \ {id},
                                   !.data[id].source = SetResult(@, value)]
    ELSE w

\* A variant of the ack timer callback that drops the record and rejects its completion
AckTimerFiredDrop(w, id) ==
    LET w1 == [w EXCEPT !.live = @ \ {<<id, "ack">>}]
    IN  IF ~w.data[id].acknowledged
        THEN [Unregister(w1, id) EXCEPT !.ackTimeouts = @ \ {id},
                                        !.data[id].source = SetError(@, "NetworkTimeoutError")]
        ELSE w1

\* The callback of the ack timer of message id (_setTimeouts, lines 153-159)
AckTimerFired(w, id) ==
    LET w1 == [w EXCEPT !.live = @ \ {<<id, "ack">>}]
    IN  IF ~w.data[id].acknowledged
        THEN [w1 EXCEPT !.ackTimeouts = @ \ {id}, !.errors = Append(@, "NetworkTimeoutError")]
        ELSE w1

\* A variant of the operation timer callback without the isFinished test
OperationTimerFiredAlways(w, id) ==
    LET w1 == [w EXCEPT !.live = @ \ {<<id, "op">>}]
    IN  [Unregister(w1, id) EXCEPT !.ackTimeouts = @ \ {id},
                                   !.data[id].source = SetError(@, "NetworkTimeoutError")]

\* The callback of the operation timer of message id (_setTimeouts, lines 165-174)
OperationTimerFired(w, id) ==
    LET w1 == [w EXCEPT !.live = @ \ {<<id, "op">>}]
    IN  IF ~IsFinished(w.data[id].source)
        THEN [Unregister(w1, id) EXCEPT !.ackTimeouts = @ \ {id},
                                        !.data[id].source = SetError(@, "NetworkTimeoutError")]
        ELSE w1

(***************************************************************************)
(* Client.  The client is a record:                                        *)
(*   isConnected    _isConnected                                           *)
(*   isPersistent   _isPersistent                                          *)
(*   nextMessageId  _nextMessageId                                         *)
(*   resumptionEnabled  _options.resumptionEnabled                         *)
(*   socket         the transport has an open connection: _socket of the   *)
(*                  WebSocketClient is set                                 *)
(*   state          _state of the WebSocketClient                          *)
(*   sockets        the WebSocket objects it has created, by number:       *)
(*                  phase is "opening", "open", "closing" or "closed";     *)
(*                  handlers tells which callbacks are attached: those of  *)
(*                  _createSocket ("connect"), those of _listen ("listen") *)
(*                  or empty ones ("none"); by tells whether start or      *)
(*                  connect made the attempt; code is the close code       *)
(*   held           the number of the socket _socket refers to, 0 if none  *)
(*   wanted         (history) the last call of the user was start() or     *)
(*                  connect(), not disconnect()                            *)
(*   called         (history) the method of the writer called last, and    *)
(*   isResumed      the argument of the last setConnectionOpened           *)
(*   reconnects     the reconnect timers that are scheduled                *)
(*   closes         how many times transport.close(error) was called       *)
(*   received       how many 'message' events of the reader it has handled *)
(*   lastIn         (history) the last of them: its type, id, the id it    *)
(*                  refers                                                 *)
(*                  to, its value, whether that id was a pending record,   *)
(*                  whether the listener threw, whether close was called   *)
(*   requestHandlers  _requestHandlers: at most one [channel, once, does]  *)
(*                  per channel; does is what the callback does when it is *)
(*                  called: "returns" a value, "throws" an Error,          *)
(*                  "refuses" with RequestError('refused'), "refusesEmpty" *)
(*                  with RequestError('')                                  *)
(*   eventHandlers  _eventHandlers: [type, channel, h, once, does], where  *)
(*                  h gives the insertion order of the listeners           *)
(*   listens        how many event listeners were added                    *)
(*   tasks          the promises of _invokeRequestHandler whose reaction   *)
(*                  has not run: [request, channel, does]                  *)
(*   errorListener  the Client has a listener for its 'error' event        *)
(*   errors         how many 'error' events its listeners received         *)
(*   responses      the Json objects of the Responses given to queue       *)
(*   channels       the channels of these Responses                        *)
(*   trace          (history) while the last message of the reader was     *)
(*                  handled: the messages passed to writer.send and the    *)
(*                  callbacks invoked, in order                            *)
(* Its handlers work on the bundle [w, r, c] of its writer, reader and     *)
(* fields.                                                                 *)
(***************************************************************************)
NoInput ==
    [type |-> 0, id |-> 0, ref |-> 0, value |-> "none", pending |-> FALSE,
     threw |-> FALSE, closed |-> FALSE]

NewClient ==
    [isConnected |-> FALSE, isPersistent |-> FALSE, nextMessageId |-> 0,
     resumptionEnabled |-> TRUE, socket |-> FALSE,
     reconnects |-> 0, closes |-> 0, received |-> 0, lastIn |-> NoInput,
     requestHandlers |-> {}, eventHandlers |-> {}, listens |-> 0, tasks |-> <<>>,
     errorListener |-> FALSE, errors |-> 0, responses |-> <<>>, trace |-> <<>>,
     state |-> "None", sockets |-> <<>>, held |-> 0, wanted |-> FALSE,
     called |-> "none", isResumed |-> FALSE, channels |-> <<>>]

Bundle(w, r, c) == [w |-> w, r |-> r, c |-> c]

\* The options _getFullOptions resolves
DefaultAckTimeout == 15000
DefaultOperationTimeout == 0

\* The channel name 'ack'
AckChannel == <<97, 99, 107>>

\* The Json object of a Response: {requestId, success, value}
JObj(requestId, success, value) == [k |-> "obj", v |-> <<requestId, success, value>>]

\* Client._dispatch: _createMessage, then writer.queue
Dispatch(n, type, timeout) ==
    [n EXCEPT !.c.nextMessageId = @ + 1,
              !.w = WriterQueue(@, n.c.nextMessageId, type, DefaultAckTimeout, timeout)]

\* Client._onConnectedTransportEvent
OnConnectedTransportEvent(n) ==
    [n EXCEPT !.c.isConnected = TRUE, !.w = SetConnectionOpened(@, TRUE)]

\* A variant of _onDisconnectedTransportEvent that restarts the ids with the connection
OnDisconnectedRestartsIds(n, intentional, error) ==
    LET n1 == [n EXCEPT !.r = ReaderClear(@), !.c.isConnected = FALSE, !.c.nextMessageId = 0]
    IN  IF error \/ ~intentional
        THEN [n1 EXCEPT !.w = SetConnectionLost(@),
                        !.c.reconnects = IF n.c.isPersistent THEN @ + 1 ELSE @]
        ELSE [n1 EXCEPT !.w = SetConnectionClosed(@)]

\* Client._onDisconnectedTransportEvent(intentional, error)
OnDisconnectedTransportEvent(n, intentional, error) ==
    LET n1 == [n EXCEPT !.r = ReaderClear(@), !.c.isConnected = FALSE]
    IN  IF error \/ ~intentional
        THEN [n1 EXCEPT !.w = SetConnectionLost(@),
                        !.c.reconnects = IF n.c.isPersistent THEN @ + 1 ELSE @]
        ELSE [n1 EXCEPT !.w = SetConnectionClosed(@)]

\* transport.close(error) as WebSocketClient.close does it: with an open socket it
\* emits 'disconnected' (!error, error) before it returns
TransportClose(n, error) ==
    LET n1 == [n EXCEPT !.c.closes = @ + 1]
    IN  IF n.c.socket
        THEN OnDisconnectedTransportEvent([n1 EXCEPT !.c.socket = FALSE], ~error, error)
        ELSE n1

\* The catch blocks of _connectOnce and _connectPersistently: 'connectError' is
\* emitted, and an attempt made by _connectPersistently sets the reconnect timer
ConnectFailed(n, by) ==
    IF by = "start" THEN [n EXCEPT !.c.reconnects = @ + 1] ELSE n

\* Client._connectOnce with WebSocketClient.connect and _createSocket, up to the
\* await: rejected unless _state is None, else a new socket is created
ConnectOnce(n, by) ==
    IF n.c.state # "None" THEN ConnectFailed(n, by)
    ELSE [n EXCEPT !.c.state = "Connecting",
                   !.c.sockets = Append(@, [phase |-> "opening", handlers |-> "connect",
                                            by |-> by, code |-> 0])]

\* Client._connectPersistently
ConnectPersistently(n) == IF ~n.c.isPersistent THEN n ELSE ConnectOnce(n, "start")

\* Client.start
Start(n) == ConnectPersistently([n EXCEPT !.c.isPersistent = TRUE, !.c.wanted = TRUE])

\* Client.connect
Connect(n) == ConnectOnce([n EXCEPT !.c.isPersistent = FALSE, !.c.wanted = TRUE], "connect")

\* A reconnect timer fires
ReconnectTimerFired(n) == ConnectPersistently([n EXCEPT !.c.reconnects = @ - 1])

\* WebSocketClient.close(error)
WebSocketClose(n, error) ==
    IF n.c.held # 0
    THEN OnDisconnectedTransportEvent(
             [n EXCEPT !.c.sockets[n.c.held].phase = "closing",
                       !.c.sockets[n.c.held].code = IF error THEN 1011 ELSE 1000,
                       !.c.held = 0, !.c.socket = FALSE, !.c.state = "None"],
             ~error, error)
    ELSE n

\* Client.disconnect, with WebSocketClient.disconnect
Disconnect(n) == WebSocketClose([n EXCEPT !.c.isPersistent = FALSE, !.c.wanted = FALSE], FALSE)

\* socket.onopen of _createSocket, then the continuation of connect(): no event
\* is emitted
SocketOpened(n, s) ==
    [n EXCEPT !.c.sockets[s].phase = "open", !.c.sockets[s].handlers = "listen",
              !.c.state = "Connected", !.c.held = s, !.c.socket = TRUE]

\* socket.onerror of _createSocket: connect() rejects
SocketFailed(n, s) ==
    ConnectFailed([n EXCEPT !.c.sockets[s].phase = "closed", !.c.sockets[s].handlers = "none",
                            !.c.state = "None"],
                  n.c.sockets[s].by)

\* The close event of socket s with a code: socket.onclose of _listen, if it is
\* still attached
SocketClosed(n, s, code) ==
    LET n1 == [n EXCEPT !.c.sockets[s].phase = "closed", !.c.sockets[s].handlers = "none",
                        !.c.sockets[s].code = code]
    IN  IF n.c.sockets[s].handlers = "listen"
        THEN OnDisconnectedTransportEvent(
                 [n1 EXCEPT !.c.held = 0, !.c.socket = FALSE, !.c.state = "None"],
                 code = 1000, FALSE)
        ELSE n1

\* The error event of an open socket s: socket.onerror of _listen
SocketErrored(n, s) ==
    OnDisconnectedTransportEvent(
        [n EXCEPT !.c.sockets[s].phase = "closed", !.c.sockets[s].handlers = "none",
                  !.c.held = 0, !.c.socket = FALSE, !.c.state = "None"],
        FALSE, TRUE)

\* A variant of _onErrorReaderEvent that leaves the transport open
OnErrorIgnored(n) == n

\* Client._onErrorReaderEvent and Client._onErrorWriterEvent
OnErrorEvent(n) == TransportClose(n, TRUE)

\* message.id as the number it is
IdNumber(id) == id.hi * 65536 + id.lo

\* Entries of the trace: a message passed to writer.send, a callback invoked for m
SendEntry(type, channel, payloads) ==
    [k |-> "send", type |-> type, channel |-> channel, payloads |-> payloads, h |-> 0]

HandlerEntry(m, h) ==
    [k |-> "handler", type |-> m.type, channel |-> m.channel, payloads |-> <<>>, h |-> h]

\* A variant of _listen that keeps the request handler a channel already has
ListenKeepsFirst(n, type, channel, once, does) ==
    IF type = TypeRequest
    THEN IF \E r \in n.c.requestHandlers : r.channel = channel THEN n
         ELSE [n EXCEPT !.c.requestHandlers =
                            @ \cup {[channel |-> channel, once |-> once, does |-> does]}]
    ELSE [n EXCEPT !.c.eventHandlers =
                       @ \cup {[type |-> type, channel |-> channel, h |-> n.c.listens,
                                once |-> once, does |-> does]},
                   !.c.listens = @ + 1]

\* Client._listen
Listen(n, type, channel, once, does) ==
    IF type = TypeRequest
    THEN [n EXCEPT !.c.requestHandlers =
                       {r \in @ : r.channel # channel}
                           \cup {[channel |-> channel, once |-> once, does |-> does]}]
    ELSE [n EXCEPT !.c.eventHandlers =
                       @ \cup {[type |-> type, channel |-> channel, h |-> n.c.listens,
                                once |-> once, does |-> does]},
                   !.c.listens = @ + 1]

\* EventEmitter._emit('error', error) on the Client: [n, threw]; without a listener
\* the error is thrown
EmitError(n) ==
    IF n.c.errorListener
    THEN [n |-> [n EXCEPT !.c.errors = @ + 1], threw |-> FALSE]
    ELSE [n |-> n, threw |-> TRUE]

\* Client._sendAck: _createMessage, then writer.send
SendAck(n, m) ==
    [n EXCEPT !.c.nextMessageId = @ + 1,
              !.c.trace = Append(@, SendEntry(TypeSystem, AckChannel,
                                              <<[type |-> PayloadJson,
                                                 data |-> JNum(IdNumber(m.id))]>>)),
              !.w = WriterSend(@, n.c.nextMessageId)]

\* An optional argument is <<>> when it is undefined, <<x>> when it is x
Undefined == <<>>

\* if (error) for an optional string
Truthy(error) == error # Undefined /\ error[1] # ""

\* The value property of the Json object: JSON leaves out an undefined one
ValueOf(value) == IF value = Undefined THEN "undefined" ELSE value[1]

\* The message of the RequestError a handler throws
RequestErrorMessage(does) == IF does = "refusesEmpty" THEN "" ELSE "refused"

GenericError == "An error occurred when handling this request"

\* A variant of _sendResponse that creates the Response on the empty channel
SendResponseUnnamed(n, request, error, value) ==
    [n EXCEPT !.c.nextMessageId = @ + 1,
              !.c.responses = Append(@, IF Truthy(error)
                                        THEN JObj(request.id, FALSE, error[1])
                                        ELSE JObj(request.id, TRUE, ValueOf(value))),
              !.c.channels = Append(@, <<>>),
              !.w = WriterQueue(@, n.c.nextMessageId, TypeResponse, DefaultAckTimeout, 0)]

\* Client._sendResponse for the request [id, channel]: _createMessage, then
\* writer.queue
SendResponse(n, request, error, value) ==
    [n EXCEPT !.c.nextMessageId = @ + 1,
              !.c.responses = Append(@, IF Truthy(error)
                                        THEN JObj(request.id, FALSE, error[1])
                                        ELSE JObj(request.id, TRUE, ValueOf(value))),
              !.c.channels = Append(@, request.channel),
              !.w = WriterQueue(@, n.c.nextMessageId, TypeResponse, DefaultAckTimeout, 0)]

\* Client._invokeEventListener: [n, threw]
InvokeEventListener(n, m, handler) ==
    LET n1 == [n EXCEPT !.c.trace = Append(@, HandlerEntry(m, handler.h))]
    IN  IF handler.does = "returns" THEN [n |-> n1, threw |-> FALSE] ELSE EmitError(n1)

\* The listeners of a Set in the order they were added
RECURSIVE InOrder(_)
InOrder(handlers) ==
    IF handlers = {} THEN <<>>
    ELSE LET first == CHOOSE x \in handlers : \A y \in handlers : x.h <= y.h
         IN  <<first>> \o InOrder(handlers \ {first})

\* The loop over the listeners in _dispatchIncomingMessage: [n, threw]
RECURSIVE InvokeEventListeners(_, _, _)
InvokeEventListeners(n, m, handlers) ==
    IF handlers = <<>> THEN [n |-> n, threw |-> FALSE]
    ELSE LET handler == Head(handlers)
             r == InvokeEventListener(n, m, handler)
         IN  IF r.threw THEN r
             ELSE InvokeEventListeners(
                      IF handler.once
                      THEN [r.n EXCEPT !.c.eventHandlers = @ \ {handler}]
                      ELSE r.n,
                      m, Tail(handlers))

\* Client._dispatchIncomingMessage after its call of _sendAck: [n, threw]
InvokeHandlers(n1, m) ==
    IF Len(m.payloads) = 0 \/ m.payloads[1].type # PayloadJson
    THEN [n |-> n1, threw |-> TRUE]
    ELSE IF m.type = TypeRequest
        THEN LET found == {r \in n1.c.requestHandlers : r.channel = m.channel}
             IN  IF found = {} THEN [n |-> n1, threw |-> FALSE]
                 ELSE LET handler == CHOOSE r \in found : TRUE
                      IN  [n |-> [n1 EXCEPT
                                     !.c.trace = Append(@, HandlerEntry(m, 0)),
                                     !.c.tasks = Append(@, [request |-> IdNumber(m.id),
                                                            channel |-> m.channel,
                                                            does |-> handler.does]),
                                     !.c.requestHandlers =
                                         IF handler.once THEN @ \ {handler} ELSE @],
                           threw |-> FALSE]
        ELSE IF /\ m.type = TypeBinary
                /\ \/ Len(m.payloads) < 2
                   \/ m.payloads[2].type # PayloadBinary
                   \/ m.payloads[1].data.k # "arr"
        THEN [n |-> n1, threw |-> TRUE]
        ELSE InvokeEventListeners(n1, m,
                 InOrder({e \in n1.c.eventHandlers :
                             e.type = m.type /\ e.channel = m.channel}))

\* A variant of _dispatchIncomingMessage that sends the ack after the handlers
DispatchThenAck(n, m) ==
    LET r == InvokeHandlers(n, m)
    IN  [r EXCEPT !.n = SendAck(@, m)]

\* Client._dispatchIncomingMessage: [n, threw]
DispatchIncomingMessage(n, m) == InvokeHandlers(SendAck(n, m), m)

\* The reaction to the promise of _invokeRequestHandler (lines 503-514) for the
\* i-th task
Respond(n, i) ==
    LET t == n.c.tasks[i]
        n1 == [n EXCEPT !.c.tasks = SubSeq(@, 1, i - 1) \o SubSeq(@, i + 1, Len(@))]
        request == [id |-> t.request, channel |-> t.channel]
    IN  IF t.does = "returns" THEN SendResponse(n1, request, Undefined, <<"v">>)
        ELSE IF t.does \in {"refuses", "refusesEmpty"}
        THEN SendResponse(n1, request, <<RequestErrorMessage(t.does)>>, Undefined)
        ELSE EmitError(SendResponse(n1, request, <<GenericError>>, Undefined)).n

\* Client._onMessageReaderEvent: [n, threw]
OnMessageReaderEvent(n, m) ==
    IF m.type = TypeSystem
    THEN IF m.channel # AckChannel THEN [n |-> n, threw |-> FALSE]
         ELSE IF Len(m.payloads) = 0 \/ m.payloads[1].type # PayloadJson
         THEN [n |-> n, threw |-> TRUE]
         ELSE [n |-> IF m.payloads[1].data.k = "num"
                     THEN [n EXCEPT !.w = SetMessageAcknowledged(@, m.payloads[1].data.v[1])]
                     ELSE n,
               threw |-> FALSE]
    ELSE IF m.type = TypeResponse THEN [n |-> n, threw |-> TRUE]
    ELSE DispatchIncomingMessage(n, m)

\* What the input m refers to: the id an ack acknowledges, the request a Response answers
RefOf(m) ==
    IF /\ m.type = TypeSystem \/ m.type = TypeResponse
       /\ Len(m.payloads) > 0
       /\ m.payloads[1].type = PayloadJson
       /\ m.payloads[1].data.k \in {"num", "obj"}
    THEN m.payloads[1].data.v[1] ELSE 0

\* The end of NetworkReader._parseData with the Client listening: the 'message'
\* listener runs inside the try block, what it throws is emitted as 'error'
ReaderEmitsMessage(n, m) ==
    LET ref == RefOf(m)
        h == OnMessageReaderEvent([n EXCEPT !.c.trace = <<>>], m)
        n1 == IF h.threw THEN OnErrorEvent(h.n) ELSE h.n
    IN  [n1 EXCEPT !.c.received = @ + 1,
                   !.c.lastIn = [type |-> m.type, id |-> IdNumber(m.id), ref |-> ref,
                                 value |-> IF m.type = TypeResponse /\ Len(m.payloads) > 0
                                                 /\ m.payloads[1].data.k = "obj"
                                           THEN m.payloads[1].data.v[3] ELSE "none",
                                 pending |-> /\ InRegister(n.w, ref)
                                             /\ ~IsFinished(n.w.data[ref].source),
                                 threw |-> h.threw,
                                 closed |-> n1.c.closes > n.c.closes]]

\* The end of NetworkReader._parseData (lines 115-126) in the reader of a Client:
\* the listeners of the Client run inside emit, then _parseData is called again
ReaderSettles(n, rid, kind, msg) ==
    LET rt == n.r.rts[rid]
        n0 == [n EXCEPT !.r.out = Append(@, Event(kind, msg, rt.eps))]
        n1 == IF n.r.index # rt.routine THEN n
              ELSE IF kind = "message" THEN ReaderEmitsMessage(n0, msg)
              ELSE OnErrorEvent(n0)
    IN  [n1 EXCEPT !.r = ParseData([@ EXCEPT !.parsing = FALSE,
                                             !.rts = DropRoutines(@, {rid})])]

\* One continuation of a ready routine of the reader of a Client
ClientContinue(n, rid) ==
    LET x == ContinueWith(n.r, rid, TRUE)
    IN  IF "settled" \in DOMAIN x
        THEN ReaderSettles([n EXCEPT !.r = x.r], rid, x.kind, x.msg)
        ELSE [n EXCEPT !.r = x]

\* The ack timer of message id fires in the writer of a Client
ClientAckTimerFired(n, id) ==
    LET w1 == AckTimerFired(n.w, id)
    IN  IF Len(w1.errors) > Len(n.w.errors) THEN OnErrorEvent([n EXCEPT !.w = w1]) ELSE [n EXCEPT !.w = w1]

(***************************************************************************)
(* Inputs.                                                                 *)
(***************************************************************************)
JsonPayload(j) == [type |-> PayloadJson, data |-> j]
BinaryPayload(d) == [type |-> PayloadBinary, data |-> d]

\* Sequences over S of length 0..n
RECURSIVE SeqsUpTo(_, _)
SeqsUpTo(S, n) ==
    IF n = 0 THEN {<<>>}
    ELSE LET shorter == SeqsUpTo(S, n - 1)
         IN  shorter \cup {Append(q, x) : q \in shorter, x \in S}

\* The Messages handed to the codec: ids at and past the 32-bit limit, one and two
\* byte characters, channels of 255 and 256 bytes, 255 and 256 payloads, and a
\* payload one byte longer than a 24-bit size can say.
CodecIds == {U32(0, 0), U32(0, 1), U32(65535, 65535), U32(65536, 0)}
CodecTypes == {TypeSystem, TypeBinary, TypeResponse}
CodecChannels ==
    {<<>>, <<97>>, <<233>>, <<97, 233>>, [i \in 1..255 |-> 97], [i \in 1..256 |-> 97]}
CodecPayloads ==
    {JsonPayload(JNum(7)), JsonPayload(JArr(<<>>)), JsonPayload(JArr(<<1, 2>>)),
     BinaryPayload(Bin(<<>>)), BinaryPayload(Bin(<<0>>)), BinaryPayload(Bin(<<Mark0, Mark1>>)),
     BinaryPayload(Zeros(Pow2(24)))}
CodecPayloadLists ==
    SeqsUpTo(CodecPayloads, MaxPayloads)
        \cup {[i \in 1..255 |-> BinaryPayload(Bin(<<>>))], [i \in 1..256 |-> BinaryPayload(Bin(<<>>))]}
CodecMessages ==
    {Message(id, t, c, ps) : id \in CodecIds, t \in CodecTypes, c \in CodecChannels,
                             ps \in CodecPayloadLists}

\* The well-formed messages whose serializations are fed to the reader.
ReaderPool ==
    {Message(U32(0, 7), TypeEvent, <<>>, <<>>),
     Message(U32(0, 1), TypeEvent, <<97>>, <<JsonPayload(JNum(5))>>),
     Message(U32(0, 2), TypeBinary, <<>>, <<BinaryPayload(Bin(<<>>))>>)}

Plans == SeqsUpTo(ReaderPool, MaxPlan) \ {<<>>}

\* The streams of one message
Singles == {<<m>> : m \in ReaderPool}

StreamOf(p) == Flatten([i \in 1..Len(p) |-> SerializeMessage(p[i]).bytes])

(***************************************************************************)
(* The codec as a pipeline: serializeMessage(cm), then parseMessage.       *)
(***************************************************************************)
CodecIdle == [stage |-> "start", ok |-> FALSE, bytes |-> <<>>, msg |-> NoMessage]

ReaderIdle ==
    /\ rd = NewReader
    /\ feed = <<>>
    /\ pos = 0
    /\ plan = <<>>

NetIdle ==
    /\ wr = NewWriter
    /\ cl = NewClient

InitCodec ==
    /\ cm \in CodecMessages
    /\ cOut = CodecIdle
    /\ ReaderIdle
    /\ NetIdle

CodecSerialize ==
    /\ cOut.stage = "start"
    /\ LET s == SerializeMessage(cm)
       IN  cOut' = [cOut EXCEPT !.stage = IF s.ok THEN "serialized" ELSE "threw",
                                !.bytes = s.bytes]
    /\ UNCHANGED <<cm, readerVars, netVars>>

CodecParse ==
    /\ cOut.stage = "serialized"
    /\ LET p == ParseMessage(cOut.bytes)
       IN  cOut' = [cOut EXCEPT !.stage = "parsed", !.ok = p.ok, !.msg = p.msg]
    /\ UNCHANGED <<cm, readerVars, netVars>>

NextCodec == CodecSerialize \/ CodecParse

SpecCodec == InitCodec /\ [][NextCodec]_vars

(***************************************************************************)
(* The reader fed with the serialization of plan, in chunks.  A write may  *)
(* come at any moment between two continuations of a parse routine.  At    *)
(* most MaxBuffers buffers are queued by empty chunks and by chunks        *)
(* written ahead of a routine that is not waiting for bytes, at most       *)
(* MaxQueue while a routine waits for bytes.  rd.out is the log of the     *)
(* events emitted since the last clear().                                  *)
(***************************************************************************)
InitReader ==
    /\ cm = NoMessage
    /\ cOut = CodecIdle
    /\ rd = NewReader
    /\ plan \in Plans
    /\ feed = StreamOf(plan)
    /\ pos = 0
    /\ NetIdle

\* The sizes of the next chunk: up to MaxChunk bytes, or all that is left; after
\* a clear() the stream is written in one chunk
ChunkSizes ==
    {k \in 0..(Len(feed) - pos) : (rd.index = 0 /\ k <= MaxChunk) \/ k = Len(feed) - pos}

\* write(chunk) with the next n bytes of feed.  Buffers pile up in the queue while
\* no continuation runs: up to MaxBuffers of them, and up to MaxQueue while a
\* request waits for more bytes than are queued.
WriteChunk(n) ==
    /\ \/ Len(rd.queue) < MaxBuffers
       \/ n > 0 /\ Len(rd.requests) > 0 /\ Len(rd.queue) < MaxQueue
    /\ rd' = ReaderWrite(rd, SubSeq(feed, pos + 1, pos + n))
    /\ pos' = pos + n
    /\ UNCHANGED <<codecVars, feed, plan, netVars>>

RdWrite == \E n \in ChunkSizes : WriteChunk(n)

RdWriteBytes == \E n \in ChunkSizes \ {0} : WriteChunk(n)

RdStep ==
    /\ \E rid \in Ready(rd) : rd' = Continue(rd, rid)
    /\ UNCHANGED <<codecVars, feed, pos, plan, netVars>>

RdClear ==
    /\ rd.index < MaxClears
    /\ rd' = [ReaderClear(rd) EXCEPT !.out = <<>>]
    /\ \E p \in Singles :
        /\ plan' = p
        /\ feed' = StreamOf(p)
    /\ pos' = 0
    /\ UNCHANGED <<codecVars, netVars>>

NextChunks == RdWrite \/ RdStep

SpecChunks == InitReader /\ [][NextChunks]_vars

NextReader == RdWriteBytes \/ RdStep \/ RdClear

InitReset ==
    /\ cm = NoMessage
    /\ cOut = CodecIdle
    /\ rd = NewReader
    /\ plan \in Singles
    /\ feed = StreamOf(plan)
    /\ pos = 0
    /\ NetIdle

SpecReader == InitReset /\ [][NextReader]_vars

(***************************************************************************)
(* The writer under the calls its owner makes: queue, the three connection *)
(* notifications, the acks and responses of a remote that was sent the     *)
(* message, and the firing of the timers it has set.  Message ids are      *)
(* handed out in order, as _createMessage does.  The transport takes at    *)
(* most MaxLog messages.                                                   *)
(***************************************************************************)
\* A positive timeout, as an option of a message
SomeTimeout == DefaultAckTimeout

Ids == 0..(MaxMsgs - 1)

Queued == DOMAIN wr.data

\* The remote has been sent message id and the connection is open
Reached(id) == wr.connected /\ \E i \in 1..Len(wr.log) : wr.log[i] = id

InitWriter ==
    /\ cm = NoMessage
    /\ cOut = CodecIdle
    /\ ReaderIdle
    /\ NetIdle

WQueue ==
    /\ Cardinality(Queued) < MaxMsgs
    /\ Len(wr.log) < MaxLog
    /\ \E type \in {TypeEvent, TypeRequest}, ackTimeout \in {0, SomeTimeout},
          operationTimeout \in {0, SomeTimeout} :
            wr' = WriterQueue(wr, Cardinality(Queued), type, ackTimeout, operationTimeout)
    /\ UNCHANGED <<codecVars, readerVars, cl>>

WLost ==
    /\ wr' = SetConnectionLost(wr)
    /\ UNCHANGED <<codecVars, readerVars, cl>>

WOpened ==
    /\ Len(wr.log) + Len(wr.messages) <= MaxLog
    /\ \E isResumed \in BOOLEAN : wr' = SetConnectionOpened(wr, isResumed)
    /\ UNCHANGED <<codecVars, readerVars, cl>>

WClosed ==
    /\ wr' = SetConnectionClosed(wr)
    /\ UNCHANGED <<codecVars, readerVars, cl>>

WAck ==
    /\ \E id \in Ids :
        /\ Reached(id)
        /\ wr' = SetMessageAcknowledged(wr, id)
    /\ UNCHANGED <<codecVars, readerVars, cl>>

WResponse ==
    /\ \E id \in Ids :
        /\ Reached(id)
        /\ wr.data[id].type = TypeRequest
        /\ wr' = SetMessageResponse(wr, id, "v")
    /\ UNCHANGED <<codecVars, readerVars, cl>>

WAckTimer ==
    /\ \E id \in Ids :
        /\ <<id, "ack">> \in wr.live
        /\ wr' = AckTimerFired(wr, id)
    /\ UNCHANGED <<codecVars, readerVars, cl>>

WOpTimer ==
    /\ \E id \in Ids :
        /\ <<id, "op">> \in wr.live
        /\ wr' = OperationTimerFired(wr, id)
    /\ UNCHANGED <<codecVars, readerVars, cl>>

NextWriter ==
    WQueue \/ WLost \/ WOpened \/ WClosed \/ WAck \/ WResponse \/ WAckTimer \/ WOpTimer

SpecWriter == InitWriter /\ [][NextWriter]_vars

\* A timer that was set and not cleared fires
FairSpecWriter == SpecWriter /\ WF_vars(WAckTimer) /\ WF_vars(WOpTimer)

(***************************************************************************)
(* The writer with several records and no timeouts: up to MaxRecords       *)
(* messages are queued with ids in order, while connected or not; the      *)
(* connection is lost, closed and opened again, resumed or not; the remote *)
(* acknowledges and answers what it was sent.                              *)
(***************************************************************************)
MaxRecords == 2

RecordIds == 0..(MaxRecords - 1)

Called(name, isResumed) ==
    /\ cl' = [cl EXCEPT !.called = name, !.isResumed = isResumed]
    /\ UNCHANGED <<codecVars, readerVars>>

RQueue ==
    /\ Cardinality(Queued) < MaxRecords
    /\ Len(wr.log) < MaxLog
    /\ \E type \in {TypeEvent, TypeRequest} :
            wr' = WriterQueue(wr, Cardinality(Queued), type, 0, 0)
    /\ Called("queue", cl.isResumed)

RLost ==
    /\ wr' = SetConnectionLost(wr)
    /\ Called("setConnectionLost", cl.isResumed)

ROpened ==
    /\ Len(wr.log) + Len(wr.messages) <= MaxLog
    /\ \E isResumed \in BOOLEAN :
        /\ wr' = SetConnectionOpened(wr, isResumed)
        /\ Called("setConnectionOpened", isResumed)

RClosed ==
    /\ wr' = SetConnectionClosed(wr)
    /\ Called("setConnectionClosed", cl.isResumed)

RAck ==
    /\ \E id \in RecordIds :
        /\ Reached(id)
        /\ wr' = SetMessageAcknowledged(wr, id)
    /\ Called("setMessageAcknowledged", cl.isResumed)

RResponse ==
    /\ \E id \in RecordIds :
        /\ Reached(id)
        /\ wr.data[id].type = TypeRequest
        /\ wr' = SetMessageResponse(wr, id, "v")
    /\ Called("setMessageResponse", cl.isResumed)

NextResend == RQueue \/ RLost \/ ROpened \/ RClosed \/ RAck \/ RResponse

SpecResend == InitWriter /\ [][NextResend]_vars

(***************************************************************************)
(* The Client between its transport and its user.  The transport reports   *)
(* connections and disconnections; the reader hands over the messages the  *)
(* remote sent (at most MaxInputs); the user dispatches events and         *)
(* requests; timers fire.                                                  *)
(***************************************************************************)
\* The messages of the remote: acks, Responses with value "v", an event
ClientIds == 0..(MaxMsgs + MaxInputs - 1)

Inputs ==
    {Message(U32(0, 0), TypeSystem, AckChannel, <<JsonPayload(JNum(id))>>) : id \in ClientIds}
        \cup {Message(U32(0, 0), TypeResponse, <<>>, <<JsonPayload(JObj(id, TRUE, "v"))>>) :
                  id \in ClientIds}
        \cup {Message(U32(0, 0), TypeEvent, <<97>>, <<JsonPayload(JArr(<<>>))>>)}

Net == Bundle(wr, rd, cl)

Becomes(n) ==
    /\ wr' = n.w
    /\ rd' = n.r
    /\ cl' = n.c
    /\ UNCHANGED <<codecVars, feed, pos, plan>>

\* new Client(options) with resumptionEnabled given or left to its default
InitClient ==
    /\ cm = NoMessage
    /\ cOut = CodecIdle
    /\ ReaderIdle
    /\ wr = NewWriter
    /\ \E enabled \in BOOLEAN : cl = [NewClient EXCEPT !.resumptionEnabled = enabled]

\* The transport emits 'connected'
CConnected ==
    /\ ~cl.socket
    /\ rd.index < MaxConnects
    /\ Len(wr.log) + Len(wr.messages) <= MaxLog
    /\ Becomes(OnConnectedTransportEvent([Net EXCEPT !.c.socket = TRUE]))

\* The socket closes (cleanly or not) or fails: the transport emits 'disconnected'
CDisconnected ==
    /\ cl.socket
    /\ \E a \in {<<TRUE, FALSE>>, <<FALSE, FALSE>>, <<FALSE, TRUE>>} :
        Becomes(OnDisconnectedTransportEvent([Net EXCEPT !.c.socket = FALSE], a[1], a[2]))

\* The user calls sendEvent or sendRequest
CDispatch ==
    /\ Cardinality(Queued) < MaxMsgs
    /\ Len(wr.log) < MaxLog
    /\ \E type \in {TypeEvent, TypeRequest}, timeout \in {DefaultOperationTimeout, SomeTimeout} :
        Becomes(Dispatch(Net, type, timeout))

\* The reader has parsed a message of the remote
CMessage ==
    /\ cl.socket
    /\ cl.received < MaxInputs
    /\ Len(wr.log) < MaxLog
    /\ \E m \in Inputs : Becomes(ReaderEmitsMessage(Net, m))

CAckTimer ==
    \E id \in ClientIds :
        /\ <<id, "ack">> \in wr.live
        /\ Becomes(ClientAckTimerFired(Net, id))

COpTimer ==
    \E id \in ClientIds :
        /\ <<id, "op">> \in wr.live
        /\ Becomes([Net EXCEPT !.w = OperationTimerFired(@, id)])

NextClient == CConnected \/ CDisconnected \/ CDispatch \/ CMessage \/ CAckTimer \/ COpTimer

SpecClient == InitClient /\ [][NextClient]_vars

(***************************************************************************)
(* The Client with user handlers: the user listens on channel "a" for      *)
(* events, binary events and requests, the remote sends them, the promises *)
(* of the request handlers are reacted to.                                 *)
(***************************************************************************)
MaxHandlers == 2

Does == {"returns", "throws", "refuses", "refusesEmpty"}

\* The messages the remote can send with an id: well-formed ones, an Event without
\* a payload and a Binary without its binary payload
InboundInputs(id) ==
    {Message(id, type, <<97>>, <<JsonPayload(JArr(<<>>))>>) :
         type \in {TypeEvent, TypeRequest, TypeBinary}}
        \cup {Message(id, TypeBinary, <<97>>,
                      <<JsonPayload(JArr(<<>>)), BinaryPayload(Bin(<<0>>))>>),
              Message(id, TypeEvent, <<97>>, <<>>)}

\* new Client(options), with or without an 'error' listener of the user
InitInbound ==
    /\ cm = NoMessage
    /\ cOut = CodecIdle
    /\ ReaderIdle
    /\ wr = NewWriter
    /\ \E listening \in BOOLEAN : cl = [NewClient EXCEPT !.errorListener = listening]

\* The user calls onEvent, onceEvent, onBinary, onceBinary, onRequest or onceRequest,
\* before the first message of the remote arrives
IListen ==
    /\ cl.listens + Cardinality(cl.requestHandlers) < MaxHandlers
    /\ cl.received = 0
    /\ \E type \in {TypeEvent, TypeBinary, TypeRequest}, once \in BOOLEAN, does \in Does :
        /\ type # TypeRequest => does \in {"returns", "throws"}
        /\ Becomes(Listen(Net, type, <<97>>, once, does))

\* The reader has parsed a message of the remote, which numbers its messages as
\* it sends them
IMessage ==
    /\ cl.socket
    /\ cl.received < MaxInputs
    /\ Len(wr.log) < MaxLog
    /\ \E m \in InboundInputs(U32(0, cl.received)) : Becomes(ReaderEmitsMessage(Net, m))

\* The promise of a request handler settles and its reaction runs
IRespond ==
    /\ Cardinality(Queued) < MaxMsgs
    /\ Len(wr.log) < MaxLog
    /\ \E i \in 1..Len(cl.tasks) : Becomes(Respond(Net, i))

NextInbound == CConnected \/ IListen \/ IMessage \/ IRespond

SpecInbound == InitInbound /\ [][NextInbound]_vars

(***************************************************************************)
(* The Client reading the bytes of its connections.  The first connection  *)
(* delivers a stream that holds a well-formed message and bytes the reader *)
(* cannot decode, in chunks; a later connection delivers a well-formed     *)
(* message.  The transport delivers data while it has a socket.            *)
(***************************************************************************)
GoodMessage == Message(U32(0, 1), TypeEvent, <<97>>, <<JsonPayload(JNum(5))>>)

GoodBytes == SerializeMessage(GoodMessage).bytes

\* Two bytes that are not the start marker
BadMarker == <<0, 0>>

\* A message whose Json payload has the format marker 1: the serialization of a
\* message with these payload bytes, with the payload type set to Json
BadJsonBytes ==
    [SerializeMessage(Message(U32(0, 2), TypeEvent, <<>>,
                              <<BinaryPayload(Bin(<<1, 53>>))>>)).bytes EXCEPT ![10] = PayloadJson]

DecodeStreams == {BadMarker \o GoodBytes, BadJsonBytes \o GoodBytes, GoodBytes \o BadMarker}

InitDecode ==
    /\ cm = NoMessage
    /\ cOut = CodecIdle
    /\ ReaderIdle
    /\ NetIdle

\* The transport emits 'connected'; the remote starts to send
DConnected ==
    /\ ~cl.socket
    /\ rd.index < MaxConnects
    /\ \E n \in {OnConnectedTransportEvent([Net EXCEPT !.c.socket = TRUE])} :
        wr' = n.w /\ rd' = n.r /\ cl' = n.c
    /\ feed' \in IF rd.index = 0 THEN DecodeStreams ELSE {GoodBytes}
    /\ pos' = 0
    /\ UNCHANGED <<codecVars, plan>>

\* The transport emits 'data' with the next bytes of the remote
DData ==
    /\ cl.socket
    /\ RdWriteBytes

\* A continuation of a parse routine runs
DStep == \E rid \in Ready(rd) : Becomes(ClientContinue(Net, rid))

NextDecode == DConnected \/ DData \/ DStep \/ CDisconnected

SpecDecode == InitDecode /\ [][NextDecode]_vars

(***************************************************************************)
(* The Client over a WebSocketClient: the user calls start, connect and    *)
(* disconnect; a socket that is opening opens or fails; an open socket is  *)
(* closed by the server or fails, or the Client closes it after an error   *)
(* of its reader or writer; a socket that was closed locally gets its      *)
(* close event; the reconnect timers fire.  At most MaxConnects sockets    *)
(* are created and at most MaxConnects timers are pending.                 *)
(***************************************************************************)
Sockets == DOMAIN cl.sockets

CanAttempt == Len(cl.sockets) < MaxConnects

CanSchedule == cl.reconnects < MaxConnects

InitConnect ==
    /\ cm = NoMessage
    /\ cOut = CodecIdle
    /\ ReaderIdle
    /\ NetIdle

KStart == CanAttempt /\ CanSchedule /\ Becomes(Start(Net))

KConnect == CanAttempt /\ Becomes(Connect(Net))

KDisconnect == Becomes(Disconnect(Net))

\* The reader or the writer emits 'error' and the Client closes the transport
KCloseError == cl.held # 0 /\ CanSchedule /\ Becomes(WebSocketClose(Net, TRUE))

KTimer == cl.reconnects > 0 /\ CanAttempt /\ Becomes(ReconnectTimerFired(Net))

KOpened ==
    \E s \in Sockets :
        /\ cl.sockets[s].phase = "opening"
        /\ Becomes(SocketOpened(Net, s))

KFailed ==
    \E s \in Sockets :
        /\ cl.sockets[s].phase = "opening"
        /\ CanSchedule
        /\ Becomes(SocketFailed(Net, s))

\* The server closes an open socket (cleanly or not), or the close of a socket
\* that was closed locally completes
KClosed ==
    \E s \in Sockets :
        /\ CanSchedule
        /\ \/ /\ cl.sockets[s].phase = "open"
              /\ \E code \in {1000, 1006} : Becomes(SocketClosed(Net, s, code))
           \/ /\ cl.sockets[s].phase = "closing"
              /\ Becomes(SocketClosed(Net, s, cl.sockets[s].code))

KErrored ==
    \E s \in Sockets :
        /\ cl.sockets[s].phase = "open"
        /\ CanSchedule
        /\ Becomes(SocketErrored(Net, s))

NextConnect ==
    \/ KStart \/ KConnect \/ KDisconnect \/ KCloseError
    \/ KTimer \/ KOpened \/ KFailed \/ KClosed \/ KErrored

SpecConnect == InitConnect /\ [][NextConnect]_vars

\* The sockets open when they can, the timers fire
FairSpecConnect == SpecConnect /\ WF_vars(KOpened) /\ WF_vars(KTimer)

(***************************************************************************)
(* Properties of the writer and of the Client.                             *)
(***************************************************************************)
Settled(id) == id \in Queued /\ IsFinished(wr.data[id].source)

\* C6: when the Response to a pending request arrives, the Client hands its value
\* to setMessageResponse: the request's completion is resolved with that value,
\* the listener does not throw and the transport is not closed.
C6_ResponseResolvesRequest ==
    (/\ cl.lastIn.type = TypeResponse
     /\ cl.lastIn.pending
     /\ wr.data[cl.lastIn.ref].type = TypeRequest)
        => /\ ~cl.lastIn.threw
           /\ ~cl.lastIn.closed
           /\ wr.data[cl.lastIn.ref].source.state = "resolved"
           /\ wr.data[cl.lastIn.ref].source.value = cl.lastIn.value

\* C7: every completion returned by queue eventually settles, in every execution
\* in which the timers that are set fire.
C7_EveryCompletionSettles == \A id \in Ids : [](id \in Queued => <>Settled(id))

\* C8: the completion of a non-request is resolved by an ack at most once, also
\* when the same id is acked again after the connection was lost and resumed.
C8_ResolvedOnceByAck ==
    \A id \in Queued :
        wr.data[id].resolveOnAck
            => Cardinality({i \in 1..Len(wr.data[id].source.calls) :
                              wr.data[id].source.calls[i] = "true"}) <= 1

\* C9: setMessageAcknowledged(id) on an unacknowledged record of the register
\* resolves the completion of a non-request with true, and leaves the completion
\* of a request as it is and its record in the register; setMessageResponse(id, v)
\* then removes the record and resolves the completion with v.  For an id that is
\* not in the register it changes nothing.
C9_AckThenResponse ==
    \A id \in 0..MaxMsgs :
        LET acked == SetMessageAcknowledged(wr, id)
            answered == SetMessageResponse(acked, id, "v")
        IN  IF ~InRegister(wr, id) THEN acked = wr
            ELSE IF wr.data[id].acknowledged THEN TRUE
            ELSE IF wr.data[id].type # TypeRequest
            THEN /\ acked.data[id].source.state = "resolved"
                 /\ acked.data[id].source.value = "true"
            ELSE /\ acked.data[id].source = wr.data[id].source
                 /\ ~IsFinished(acked.data[id].source)
                 /\ InRegister(acked, id)
                 /\ ~InRegister(answered, id)
                 /\ answered.data[id].source.state = "resolved"
                 /\ answered.data[id].source.value = "v"

\* A request was acknowledged: it is in the register, its completion pending
C9_Witness ==
    \E id \in Queued :
        /\ InRegister(wr, id)
        /\ wr.data[id].type = TypeRequest
        /\ wr.data[id].sent
        /\ wr.data[id].acknowledged
        /\ ~IsFinished(wr.data[id].source)

\* C10: the register holds only records that still await an ack or a response: no
\* acknowledged non-request, and no record whose completion has settled.
C10_RegisterHoldsAwaited ==
    \A id \in Queued :
        InRegister(wr, id)
            => /\ ~(wr.data[id].resolveOnAck /\ wr.data[id].acknowledged)
               /\ ~IsFinished(wr.data[id].source)

\* The records whose ack timer is running and whose ack has not arrived
AwaitingAck ==
    {id \in Queued : InRegister(wr, id) /\ <<id, "ack">> \in wr.live /\ ~wr.data[id].acknowledged}

\* C11: when the ack timer of a record fires before its ack arrives, the completion
\* is rejected with NetworkTimeoutError and the record is dropped from the register.
C11_AckTimeoutRejects ==
    \A id \in AwaitingAck :
        LET fired == AckTimerFired(wr, id)
        IN  /\ fired.data[id].source.state = "rejected"
            /\ fired.data[id].source.value = "NetworkTimeoutError"
            /\ ~InRegister(fired, id)

AckDue == {id \in Queued : <<id, "ack">> \in wr.live /\ ~wr.data[id].acknowledged}

\* The ids given to transport.send after the first n of them
SentAfter(w, n) == {w.log[i] : i \in (n + 1)..Len(w.log)}

\* C13: when an ack times out in the Client, transport.close(error) is called, the
\* disconnect is handled as a loss (the writer is disconnected, the register is as
\* it was), and the message is sent again when the transport next connects.
C13_AckTimeoutResends ==
    \A id \in AckDue :
        LET fired == ClientAckTimerFired(Net, id)
            again == OnConnectedTransportEvent([fired EXCEPT !.c.socket = TRUE])
        IN  /\ fired.c.closes = cl.closes + 1
            /\ ~fired.c.socket
            /\ ~fired.c.isConnected
            /\ ~fired.w.connected
            /\ fired.w.messages = wr.messages
            /\ id \in SentAfter(again.w, Len(fired.w.log))

\* The requests whose operation timer is running
OperationDue == {id \in Queued : <<id, "op">> \in wr.live}

\* C14: when the operation timer of a Request fires while its completion is
\* pending, the record is removed from the register and the completion is rejected
\* with NetworkTimeoutError; when the completion has settled, the firing changes
\* nothing but the timer itself.  Only a Request with operationTimeout > 0 has an
\* operation timer.
C14_OperationTimeout ==
    \A id \in OperationDue :
        LET fired == OperationTimerFired(wr, id)
        IN  /\ wr.data[id].type = TypeRequest
            /\ wr.data[id].operationTimeout > 0
            /\ IF ~IsFinished(wr.data[id].source)
               THEN /\ InRegister(wr, id)
                    /\ ~InRegister(fired, id)
                    /\ fired.data[id].source.state = "rejected"
                    /\ fired.data[id].source.value = "NetworkTimeoutError"
               ELSE fired = [wr EXCEPT !.live = @ \ {<<id, "op">>}]

\* The operation timer of a request has fired after its response: the completion
\* is resolved with the value of the response
C14_Witness ==
    \E id \in Queued :
        /\ wr.data[id].type = TypeRequest
        /\ wr.data[id].operationTimeout > 0
        /\ wr.data[id].sent
        /\ <<id, "op">> \notin wr.live
        /\ id \notin wr.operationTimeouts
        /\ wr.connected
        /\ wr.data[id].source.state = "resolved"
        /\ wr.data[id].source.value = "v"
        /\ <<id, "ack">> \in wr.live

\* C15: setConnectionLost() on a connected writer disconnects it and leaves the
\* register and every completion as they were; on a disconnected writer it changes
\* nothing.
C15_LostKeepsRecords ==
    LET lost == SetConnectionLost(wr)
    IN  IF wr.connected
        THEN /\ ~lost.connected
             /\ lost.messages = wr.messages
             /\ \A id \in Queued : lost.data[id].source = wr.data[id].source
        ELSE lost = wr

\* The connection was lost after a message was sent: the writer is disconnected and
\* the record is in the register
C15_Witness ==
    /\ ~wr.connected
    /\ \E id \in Queued : InRegister(wr, id) /\ wr.data[id].sent

\* C16: after setConnectionClosed() the register is empty, whether the writer was
\* connected or not, and the next setConnectionOpened writes nothing to the
\* transport.
C16_ClosedEmptiesRegister ==
    LET closed == SetConnectionClosed(wr)
    IN  /\ closed.messages = <<>>
        /\ \A isResumed \in BOOLEAN : SetConnectionOpened(closed, isResumed).log = closed.log

\* queue(message, options) of a new message on the writer as it is
QueueNext(type, ackTimeout, operationTimeout) ==
    WriterQueue(wr, Cardinality(Queued), type, ackTimeout, operationTimeout)

\* A message of the given type queued on the disconnected writer is not written to
\* the transport, is in the register unsent with no timer, is written to the
\* transport by the next setConnectionOpened, and when it is then acknowledged its
\* completion is resolved (resolves) or left pending (~resolves)
HeldThenFlushed(type, resolves) ==
    \A ackTimeout \in {0, SomeTimeout}, operationTimeout \in {0, SomeTimeout}, isResumed \in BOOLEAN :
        LET id == Cardinality(Queued)
            held == QueueNext(type, ackTimeout, operationTimeout)
            flushed == SetConnectionOpened(held, isResumed)
            acked == SetMessageAcknowledged(flushed, id)
        IN  /\ held.log = wr.log
            /\ InRegister(held, id)
            /\ ~held.data[id].sent
            /\ held.live = wr.live
            /\ id \in SentAfter(flushed, Len(held.log))
            /\ flushed.data[id].sent
            /\ IF resolves
               THEN /\ acked.data[id].source.state = "resolved"
                    /\ acked.data[id].source.value = "true"
               ELSE ~IsFinished(acked.data[id].source)

\* C17 (as stated): a message of any type queued while the writer is disconnected
\* is held in the register, written on the next setConnectionOpened, and its
\* completion resolves when its ack arrives.
C17_QueuedOfflineResolvesOnAck ==
    ~wr.connected => HeldThenFlushed(TypeEvent, TRUE) /\ HeldThenFlushed(TypeRequest, TRUE)

\* C17 (amended): the same, where the ack resolves the completion of a non-request
\* and leaves the completion of a Request pending.
C17_QueuedOffline ==
    ~wr.connected => HeldThenFlushed(TypeEvent, TRUE) /\ HeldThenFlushed(TypeRequest, FALSE)

\* A message was queued while the writer was disconnected: it is in the register,
\* unsent, with no timer, and nothing was written to the transport
C17_Witness ==
    /\ ~wr.connected
    /\ wr.log = <<>>
    /\ wr.live = {}
    /\ \E id \in Queued : InRegister(wr, id) /\ ~wr.data[id].sent

\* C18: when the connection of a Client is lost, its undelivered records are
\* retained and sent again on the next connection if resumptionEnabled is true, and
\* dropped (the register is empty, the next connection sends nothing) if it is
\* false.
C18_ResumptionDecides ==
    cl.socket =>
        LET lost == OnDisconnectedTransportEvent([Net EXCEPT !.c.socket = FALSE], FALSE, FALSE)
            again == OnConnectedTransportEvent([lost EXCEPT !.c.socket = TRUE])
            resent == SentAfter(again.w, Len(lost.w.log))
        IN  IF cl.resumptionEnabled
            THEN /\ lost.w.messages = wr.messages
                 /\ \A id \in Queued : InRegister(wr, id) => id \in resent
            ELSE /\ lost.w.messages = <<>>
                 /\ resent = {}

\* The ids that occur in the writer w: of queued messages and of messages given to
\* transport.send
IdsIn(w) == DOMAIN w.data \cup {w.log[i] : i \in 1..Len(w.log)}

\* C19: the Client never lowers its id counter, a step creates at most one message,
\* and an id that occurs for the first time is the counter's value before the step:
\* the ids of the messages the Client creates are strictly increasing and never
\* repeated, across disconnects and reconnects.
C19_IdsIncrease ==
    [][/\ cl'.nextMessageId >= cl.nextMessageId
       /\ cl'.nextMessageId <= cl.nextMessageId + 1
       /\ \A id \in IdsIn(wr') \ IdsIn(wr) : id = cl.nextMessageId /\ id < cl'.nextMessageId]_vars

\* After a disconnect the Client has created a message with an id above 0 and given
\* two different ids to the transport
C19_Witness ==
    /\ rd.index > 0
    /\ cl.socket
    /\ cl.nextMessageId > 1
    /\ Cardinality({wr.log[i] : i \in 1..Len(wr.log)}) > 1

\* C20: for every inbound Event, Binary or Request message m, the Client passes
\* exactly one message to NetworkWriter.send while it handles m: a System message
\* on channel 'ack' whose single payload is the Json value m.id; it is passed
\* first, every user handler invoked for m is invoked after it.
C20_AckBeforeHandlers ==
    cl.received > 0 /\ cl.lastIn.type \in {TypeEvent, TypeBinary, TypeRequest} =>
        /\ Len(cl.trace) >= 1
        /\ cl.trace[1] = SendEntry(TypeSystem, AckChannel, <<JsonPayload(JNum(cl.lastIn.id))>>)
        /\ \A i \in 2..Len(cl.trace) : cl.trace[i].k = "handler"

\* Two listeners were invoked for an event with id 1, after its ack was sent
C20_Witness ==
    /\ cl.received > 0
    /\ cl.lastIn.type \in {TypeEvent, TypeBinary}
    /\ cl.lastIn.id = 1
    /\ Len(cl.trace) = 3
    /\ cl.trace[1].k = "send"
    /\ cl.trace[2].k = "handler" /\ cl.trace[3].k = "handler"
    /\ cl.trace[2].h < cl.trace[3].h

\* The Response the reaction to the i-th pending promise gives to queue
ResponseOf(i) ==
    LET n == Respond(Net, i)
    IN  n.c.responses[Len(n.c.responses)]

\* C21: when a request handler throws or rejects with RequestError(msg), for every
\* string msg (the empty string too) the Response that is sent has success = false
\* and error = msg; for any other exception the Response has success = false and
\* the error 'An error occurred when handling this request', and the Client emits
\* 'error' to its listeners.
C21_ErrorResponses ==
    \A i \in 1..Len(cl.tasks) :
        LET t == cl.tasks[i]
        IN  /\ t.does \in {"refuses", "refusesEmpty"} =>
                ResponseOf(i) = JObj(t.request, FALSE, RequestErrorMessage(t.does))
            /\ t.does = "throws" =>
                /\ ResponseOf(i) = JObj(t.request, FALSE, GenericError)
                /\ cl.errorListener => Respond(Net, i).c.errors = cl.errors + 1

\* The Response of a handling side whose handler threw, for request id
ErrorResponse(id) ==
    Message(U32(0, 0), TypeResponse, <<>>, <<JsonPayload(JObj(id, FALSE, GenericError))>>)

\* C22: an exception of a request handler closes no transport: when the Response
\* with success = false arrives at the requesting side for a request it has sent
\* and still awaits, transport.close is not called and the Client stays connected.
C22_RequesterStaysConnected ==
    \A id \in Queued :
        InRegister(wr, id) /\ wr.data[id].type = TypeRequest /\ Reached(id) /\ cl.socket =>
            LET n == ReaderEmitsMessage(Net, ErrorResponse(id))
            IN  n.c.closes = cl.closes /\ n.c.socket /\ n.c.isConnected

\* The handling side: reacting to the promise of a handler that threw queues a
\* Response and leaves the transport alone
HandlerStaysConnected ==
    \A i \in 1..Len(cl.tasks) :
        LET n == Respond(Net, i)
        IN  /\ n.c.closes = cl.closes /\ n.c.socket = cl.socket
            /\ n.c.isConnected = cl.isConnected
            /\ Len(n.c.responses) = Len(cl.responses) + 1

\* The listeners _dispatchIncomingMessage finds for m
Matching(c, m) == {e \in c.eventHandlers : e.type = m.type /\ e.channel = m.channel}

\* The callbacks invoked while the last message was handled, in order
Invoked(c) == SelectSeq(c.trace, LAMBDA e : e.k = "handler")

\* Well-formed Event and Binary messages with an id, on the channel the user
\* listens on and on another one
EventInputs(id) ==
    {Message(id, TypeEvent, channel, <<JsonPayload(JArr(<<>>))>>) : channel \in {<<97>>, <<98>>}}
        \cup {Message(id, TypeBinary, channel,
                      <<JsonPayload(JArr(<<>>)), BinaryPayload(Bin(<<0>>))>>) :
                  channel \in {<<97>>, <<98>>}}

\* Handling m invokes exactly the listeners registered for its type and channel,
\* each once, in registration order, and removes the once listeners among them
InvokesAll(m) ==
    LET n == ReaderEmitsMessage(Net, m)
        expected == InOrder(Matching(cl, m))
        invoked == Invoked(n.c)
    IN  /\ Len(invoked) = Len(expected)
        /\ \A i \in 1..Len(expected) : invoked[i].h = expected[i].h
        /\ \A e \in Matching(cl, m) : e.once => e \notin n.c.eventHandlers
        /\ \A e \in cl.eventHandlers \ Matching(cl, m) : e \in n.c.eventHandlers

\* C23: for each inbound Event or Binary message, every handler registered for its
\* type and channel is invoked exactly once, in registration order, handlers of
\* another type or channel are not invoked, and a once handler is gone after the
\* message it was invoked for, so that it is invoked for at most one message.
C23_EveryHandlerOnce ==
    cl.socket => \A m \in EventInputs(U32(0, cl.received)) : InvokesAll(m)

\* The same for a Client that has an 'error' listener
EveryHandlerOnceWithErrorListener ==
    cl.socket /\ cl.errorListener => \A m \in EventInputs(U32(0, cl.received)) : InvokesAll(m)

\* A well-formed Request with an id on the channel the user listens on
RequestInput(id) == Message(id, TypeRequest, <<97>>, <<JsonPayload(JArr(<<>>))>>)

\* onRequest or onceRequest with a callback leaves it as the only handler of the
\* channel, whatever was registered before
LastRegistrationWins ==
    \A once \in BOOLEAN, does \in Does :
        Listen(Net, TypeRequest, <<97>>, once, does).c.requestHandlers =
            {[channel |-> <<97>>, once |-> once, does |-> does]}

\* A step in which a well-formed Request is handled: with no handler on its
\* channel nothing is invoked; with one, that callback is invoked once, its
\* promise is awaited, and it is removed when it was registered with once
RequestInvokesHandler ==
    /\ cl'.received = cl.received + 1
    /\ cl'.lastIn.type = TypeRequest
    /\ ~cl'.lastIn.threw
    => LET found == {r \in cl.requestHandlers : r.channel = <<97>>}
       IN  IF found = {}
           THEN Invoked(cl') = <<>> /\ cl'.tasks = cl.tasks
           ELSE \E handler \in found :
                   /\ Len(Invoked(cl')) = 1
                   /\ cl'.tasks = Append(cl.tasks, [request |-> cl'.lastIn.id,
                                                    channel |-> <<97>>,
                                                    does |-> handler.does])
                   /\ cl'.requestHandlers =
                          IF handler.once THEN cl.requestHandlers \ {handler}
                          ELSE cl.requestHandlers

\* C24: each inbound Request invokes at most one handler, the one most recently
\* registered on its channel; a onceRequest handler is removed when it is invoked,
\* and Requests on that channel then invoke no handler until one is registered.
C24_OneRequestHandler ==
    [][/\ Cardinality(cl.requestHandlers) <= 1
       /\ LastRegistrationWins
       /\ RequestInvokesHandler]_vars

\* A second Request arrived after a onceRequest handler answered the first: it
\* invoked no handler
C24_Witness ==
    /\ cl.received = 2
    /\ cl.lastIn.type = TypeRequest
    /\ Invoked(cl) = <<>>
    /\ cl.requestHandlers = {}
    /\ Len(cl.tasks) + Len(cl.responses) = 1

\* How often id was written to the transport
Written(w, id) == Cardinality({i \in 1..Len(w.log) : w.log[i] = id})

\* C25: send(message) returns false and writes nothing when the writer is
\* disconnected, returns true and writes the message once when it is connected;
\* in both cases the register, the records and the timers are as before, and the
\* message is not written again when the connection is lost and opened again.
C25_SendIsNotQueued ==
    \A sent \in {WriterSend(wr, cl.nextMessageId)} :
        /\ Written(sent, cl.nextMessageId) = IF SendReturns(wr) THEN 1 ELSE 0
        /\ Len(sent.log) = Len(wr.log) + IF SendReturns(wr) THEN 1 ELSE 0
        /\ sent = [wr EXCEPT !.log = sent.log]
        /\ \A isResumed \in BOOLEAN :
               Written(SetConnectionOpened(SetConnectionLost(sent), isResumed),
                       cl.nextMessageId) = Written(sent, cl.nextMessageId)

\* An ack was written between two writes of a queued message: the connection was
\* opened again after the ack, and only the queued message was written again
C25_Witness ==
    /\ Len(wr.log) = 3
    /\ wr.log[1] = wr.log[3]
    /\ wr.log[1] \in Queued
    /\ wr.log[2] \notin Queued
    /\ Written(wr, wr.log[2]) = 1
    /\ cl.lastIn.type = TypeEvent
    /\ wr.connected

\* The step in which the reader emits an 'error': transport.close(error) is called,
\* the Client is disconnected and the bytes the reader held are dropped
ErrorClosesTransport ==
    Len(rd'.out) > Len(rd.out) /\ rd'.out[Len(rd'.out)].kind = "error" =>
        /\ cl'.closes = cl.closes + 1
        /\ ~cl'.socket /\ ~cl'.isConnected
        /\ rd'.queueLength = 0 /\ rd'.requests = <<>>

\* Once every byte of a stream with undecodable bytes is written and every
\* continuation has run, the connection it came on is gone
BadBytesAreFatal ==
    ~(rd.index = 0 /\ feed # <<>> /\ pos = Len(feed) /\ Ready(rd) = {} /\ ~rd.parsing)

\* No event after an 'error' is built from bytes of the connection of the error,
\* and the Client has handled exactly the messages the reader emitted
NothingAfterError ==
    /\ \A i \in 1..Len(rd.out) : \A j \in (i + 1)..Len(rd.out) :
           rd.out[i].kind = "error" => rd.out[j].eps \cap rd.out[i].eps = {}
    /\ cl.received = Cardinality({i \in 1..Len(rd.out) : rd.out[i].kind = "message"})

\* C26: when the bytes at a message boundary do not start with 0xDD 0xF0, or a
\* Json payload has a format marker other than 0, the reader emits 'error', the
\* Client calls transport.close(error), and no message parsed from bytes of that
\* connection is dispatched after the error.
C26_DecodeErrorIsFatal ==
    [][ErrorClosesTransport /\ BadBytesAreFatal' /\ NothingAfterError']_vars

\* An 'error' on the first connection, whose stream also held a well-formed
\* message after the bad bytes, then a message of the second connection
C26_Witness ==
    /\ Len(rd.out) = 2
    /\ rd.out[1].kind = "error" /\ rd.out[1].eps = {0}
    /\ rd.out[2].kind = "message" /\ rd.out[2].eps = {1}
    /\ cl.received = 1
    /\ cl.closes = 1

\* C29: whenever the WebSocketClient holds an open socket (its connect() has
\* resolved), the Client is connected and the writer is open.
C29_ConnectedAfterConnect ==
    cl.held # 0 => cl.isConnected /\ wr.connected

\* C28: after disconnect() and until the next start() or connect(), the
\* transport of the Client holds no connection.
C28_NoConnectionAfterDisconnect ==
    ~cl.wanted => cl.held = 0

\* After disconnect() and until the next start() or connect(), no connection
\* attempt is started
NoAttemptAfterDisconnect ==
    [][~cl.wanted /\ ~cl.wanted' => Len(cl.sockets') = Len(cl.sockets)]_vars

\* disconnect() was called with a reconnect timer pending and the timer has
\* fired since
TimerFiredAfterDisconnect ==
    ~cl.wanted /\ Len(cl.sockets) > 0 /\ cl.reconnects = 0
        /\ \E s \in Sockets : cl.sockets[s].by = "start" /\ cl.sockets[s].phase = "closed"

\* The sockets that are opening or open
Live == {s \in Sockets : cl.sockets[s].phase \in {"opening", "open"}}

\* C30: the WebSocketClient is idle (_state None) exactly when it has no socket
\* that is opening or open, it never has two of them, and the open socket is
\* the one it holds: a connect() after 'disconnected' gets a connection of its
\* own, a connect() during a connection is refused.
C30_OneConnectionAtATime ==
    /\ Cardinality(Live) <= 1
    /\ cl.state = "None" <=> Live = {}
    /\ \A s \in Live : cl.sockets[s].phase = "open" => cl.held = s

\* C27: after start(), whenever the transport has accepted a connection the
\* Client eventually is connected, unless the connection is lost again or the
\* user ends the persistent mode.
C27_EventuallyConnected ==
    [](cl.isPersistent /\ cl.held # 0 => <>(cl.isConnected \/ cl.held = 0 \/ ~cl.isPersistent))

\* The scheduling of the attempts: an attempt of start() that fails sets a
\* reconnect timer, one of connect() sets none; a socket whose listeners are
\* attached and that closes or fails sets a timer in persistent mode unless
\* its close code is 1000, and none without the persistent mode; a timer that
\* fires without the persistent mode makes no attempt
RetryScheduling ==
    [][/\ \A s \in Sockets :
              cl.sockets[s].phase = "opening" /\ cl.sockets'[s].phase = "closed"
                  => cl.reconnects' = cl.reconnects + (IF cl.sockets[s].by = "start" THEN 1 ELSE 0)
       /\ \A s \in Sockets :
              /\ cl.sockets[s].phase \in {"open", "closing"}
              /\ cl.sockets[s].handlers = "listen"
              /\ cl.sockets'[s].phase = "closed"
              => cl.reconnects' = cl.reconnects
                     + (IF cl.isPersistent /\ cl.sockets'[s].code # 1000 THEN 1 ELSE 0)
       /\ cl.reconnects' < cl.reconnects /\ ~cl.isPersistent
              => Len(cl.sockets') = Len(cl.sockets)
      ]_vars

\* In persistent mode a failed attempt was followed by a second attempt
C27_Retried ==
    /\ cl.isPersistent
    /\ Len(cl.sockets) = 2
    /\ cl.sockets[1].phase = "closed" /\ cl.sockets[1].handlers = "none" /\ cl.sockets[1].code = 0
    /\ cl.sockets[2].phase = "open" /\ cl.held = 2

\* The ids of S in ascending order
RECURSIVE Ascending(_)
Ascending(S) ==
    IF S = {} THEN <<>>
    ELSE LET least == CHOOSE x \in S : \A y \in S : x <= y
         IN  <<least>> \o Ascending(S \ {least})

\* The records of the register that setConnectionOpened(isResumed) is to write
ToResend(w, isResumed) ==
    {id \in DOMAIN w.data : InRegister(w, id) /\ (~w.data[id].sent \/ isResumed)}

C31_NotResumed ==
    /\ cl.called = "setConnectionOpened" /\ ~cl.isResumed
    /\ wr.log = <<0, 1>> /\ Len(wr.messages) = 2 /\ wr.data[0].sent /\ ~wr.data[0].acknowledged

\* The timer <<id, kind>> fires in this step
Fires(id, kind) == <<id, kind>> \in wr.live /\ <<id, kind>> \notin wr'.live

\* C32: an ack timer emits its NetworkTimeoutError, and an operation timer
\* rejects the completion, only for a record that is in the register of a
\* connected writer.
C32_NoTimeoutAfterCancel ==
    [][\A id \in Queued :
          \/ Fires(id, "ack") /\ Len(wr'.errors) > Len(wr.errors)
          \/ Fires(id, "op") /\ wr'.data[id].source.state = "rejected"
                             /\ wr.data[id].source.state = "pending"
          => InRegister(wr, id) /\ wr.connected]_vars

\* The timers that clearTimeout has cancelled do not fire: every scheduled timer
\* of a disconnected writer is one whose map entry was deleted without
\* clearTimeout while the writer was connected
ClearedTimersAreCancelled ==
    \A t \in wr.live :
        \/ wr.connected
        \/ /\ t[2] = "ack" => t[1] \notin wr.ackTimeouts
           /\ t[2] = "op" => t[1] \notin wr.operationTimeouts

\* The listeners of the type of the message handled in this step (all are on
\* the channel of the messages), and those of them that throw
ListenersOfStep == {e \in cl.eventHandlers : e.type = cl'.lastIn.type}

\* In this step an Event or Binary message was handled and a listener that
\* throws was invoked for it
ListenerThrew ==
    /\ cl'.received = cl.received + 1
    /\ cl'.lastIn.type \in {TypeEvent, TypeBinary}
    /\ \E e \in ListenersOfStep :
          e.does = "throws" /\ \E i \in 1..Len(Invoked(cl')) : Invoked(cl')[i].h = e.h

\* All listeners of the message were invoked and the transport was not closed
ThrowIsContained ==
    /\ Len(Invoked(cl')) = Cardinality(ListenersOfStep)
    /\ cl'.closes = cl.closes
    /\ cl'.socket

\* C34: when a listener of an Event or Binary message throws, the other
\* listeners of the message are invoked all the same and the transport is
\* not closed, with or without an 'error' listener on the Client; with one,
\* it receives an 'error' event for each listener that threw.
C34_ThrowingListenerIsContained ==
    [][ListenerThrew =>
          /\ ThrowIsContained
          /\ cl.errorListener =>
                cl'.errors = cl.errors
                                + Cardinality({e \in ListenersOfStep : e.does = "throws"})]_vars

\* The same for a Client that has an 'error' listener
ContainedWithErrorListener ==
    [][ListenerThrew /\ cl.errorListener =>
          /\ ThrowIsContained
          /\ cl'.errors = cl.errors
                             + Cardinality({e \in ListenersOfStep : e.does = "throws"})]_vars

\* With an 'error' listener: of two listeners the first threw, both were invoked
ThrewAndWentOn ==
    /\ cl.errorListener /\ cl.errors = 1 /\ cl.received = 1
    /\ Len(Invoked(cl)) = 2
    /\ \E e \in cl.eventHandlers : e.h = Invoked(cl)[1].h /\ e.does = "throws"

\* The ids of the Requests whose handler was invoked: those awaited and those
\* answered
Handled == [i \in 1..Len(cl.tasks) |-> cl.tasks[i].request]
               \o [i \in 1..Len(cl.responses) |-> cl.responses[i].v[1]]

\* A step in which a well-formed Request is handled: it is acknowledged; its
\* handler, if the channel has one, is awaited; no Response is queued yet
RequestIsAwaited ==
    /\ cl'.received = cl.received + 1
    /\ cl'.lastIn.type = TypeRequest
    /\ ~cl'.lastIn.threw
    => /\ cl'.trace[1] = SendEntry(TypeSystem, AckChannel,
                                   <<JsonPayload(JNum(cl'.lastIn.id))>>)
       /\ cl'.responses = cl.responses
       /\ wr'.messages = wr.messages
       /\ Len(cl'.tasks) = Len(cl.tasks)
              + (IF \E r \in cl.requestHandlers : r.channel = <<97>> THEN 1 ELSE 0)

\* A step in which the promise of a handler is reacted to: one Response is given
\* to queue, on the channel of the Request, with the id of the Request in its
\* Json object, success = true with the value or success = false with the error
SettledIsAnswered ==
    Len(cl'.tasks) < Len(cl.tasks)
    => \E i \in 1..Len(cl.tasks) :
          LET t == cl.tasks[i]
              last == Len(cl'.responses)
              object == cl'.responses[last]
          IN  /\ cl'.tasks = SubSeq(cl.tasks, 1, i - 1) \o SubSeq(cl.tasks, i + 1, Len(cl.tasks))
              /\ last = Len(cl.responses) + 1
              /\ SubSeq(cl'.responses, 1, last - 1) = cl.responses
              /\ cl'.channels = Append(cl.channels, t.channel)
              /\ object.k = "obj"
              /\ object.v[1] = t.request
              /\ object.v[2] => object.v[3] \in {"v", "undefined"}
              /\ ~object.v[2] => object.v[3] \in {"refused", GenericError}
              /\ t.does = "returns" => object.v[2] /\ object.v[3] = "v"
              /\ t.does \in {"refuses", "throws"} => ~object.v[2]
              /\ wr'.messages = Append(wr.messages, cl.nextMessageId)
              /\ wr'.data[cl.nextMessageId].type = TypeResponse

\* C35: an inbound Request whose channel has a handler gets exactly one Response,
\* queued when the handler has settled, on the channel of the Request and with
\* the id of the Request and the success flag in its Json object; a Request on
\* a channel without a handler is acknowledged and gets no Response.
C35_OneResponsePerRequest ==
    [][/\ RequestIsAwaited
       /\ SettledIsAnswered
       /\ Len(cl'.responses) > Len(cl.responses) => Len(cl'.tasks) < Len(cl.tasks)
       /\ \A i, j \in 1..Len(Handled') : Handled'[i] = Handled'[j] => i = j]_vars

\* C35 witness: of two Requests the first found a handler registered with
\* onceRequest and was answered, the second found none and was not
C35_Witness ==
    /\ cl.received = 2
    /\ cl.lastIn.type = TypeRequest /\ ~cl.lastIn.threw
    /\ cl.tasks = <<>>
    /\ Len(cl.responses) = 1 /\ cl.responses[1].v[1] = 0
    /\ cl.channels = <<(<<97>>)>>

\* C36: a message the remote has acknowledged is not written to the transport
\* again, whatever happens to the connection afterwards.
C36_AcknowledgedNotResent ==
    [][\A id \in Queued :
          wr.data[id].acknowledged => Written(wr', id) = Written(wr, id)]_vars

\* The receiving side: a message that arrives a second time with the same id
\* invokes no handler
DuplicateIsNotDispatched ==
    cl.socket =>
        \A m \in EventInputs(U32(0, cl.received)) :
            Invoked(ReaderEmitsMessage(ReaderEmitsMessage(Net, m), m).c) = <<>>

\* The connection attempts in flight: the sockets that are opening
InFlight == {s \in Sockets : cl.sockets[s].phase = "opening"}

\* C37: in persistent mode at most one reconnect timer is pending or one
\* connection attempt is in flight, and none of either while the transport
\* holds a connection.
C37_OneAttemptAtATime ==
    cl.isPersistent =>
        /\ cl.reconnects + Cardinality(InFlight) <= 1
        /\ cl.held # 0 => cl.reconnects = 0 /\ InFlight = {}

\* C38: the close event of a socket the WebSocketClient has closed itself, for
\* which close() has emitted 'disconnected' already, emits no second
\* 'disconnected' (which would clear the reader of the Client once more) and
\* leaves _state and _socket as they are.
C38_OneDisconnectedPerClosure ==
    [][\A s \in Sockets :
          cl.sockets[s].phase = "closing" /\ cl.sockets'[s].phase = "closed"
              => rd'.index = rd.index /\ cl'.state = cl.state /\ cl'.held = cl.held]_vars

\* A closure by the server or by an error of the socket emits 'disconnected' once:
\* the event that ends an open socket clears the reader once, and no later event
\* of that socket does
OneDisconnectedPerRemoteClosure ==
    [][\A s \in Sockets :
          /\ cl.sockets[s].phase = "open" /\ cl.sockets'[s].phase = "closed"
                => rd'.index = rd.index + 1
          /\ cl.sockets[s].phase = "closed" => cl.sockets'[s] = cl.sockets[s]]_vars

C39_UnsentWhileDisconnected ==
    /\ cl.called = "queue"
    /\ ~wr.connected
    /\ \E id \in Queued : InRegister(wr, id) /\ ~wr.data[id].sent /\ ~wr.data[id].acknowledged

(***************************************************************************)
(* Properties of the reader.                                               *)
(***************************************************************************)
\* The reader after a single write(S) on a fresh reader, all continuations run
RECURSIVE RunToIdle(_)
RunToIdle(r) ==
    IF Ready(r) = {} THEN r
    ELSE RunToIdle(Continue(r, CHOOSE i \in Ready(r) : TRUE))

SingleWrite(S) == RunToIdle(ReaderWrite(NewReader, S))

\* Every byte of feed is written and no continuation is pending
Quiescent == pos = Len(feed) /\ Ready(rd) = {}

\* The 'message' events of the messages p, made of bytes written since the last clear()
ExpectedEvents(p) == [i \in 1..Len(p) |-> Event("message", p[i], {rd.index})]

\* C1: the events emitted for the chunks c_1..c_k of a stream S of well-formed
\* messages are those a single write(S) emits: at any moment a prefix of them, and
\* all of them once every chunk is written and every continuation has run.
C1_ChunkingInvariance ==
    LET ref == SingleWrite(feed).out
    IN  /\ IsPrefix(rd.out, ref)
        /\ Quiescent => rd.out = ref

\* C1 witness: of a stream of two messages the first is emitted as the single
\* write emits it, and a chunk has ended inside the header of the second.
C1_Witness ==
    /\ Len(plan) = 2
    /\ rd.out = SubSeq(SingleWrite(feed).out, 1, 1)
    /\ rd.queueLength > 0
    /\ \E i \in DOMAIN rd.rts : rd.rts[i].st = "wait" /\ rd.rts[i].pc = "head"

\* C2: the serializations of m_1..m_k, written in that order in any chunking, give
\* exactly the 'message' events m_1..m_k in that order and no 'error' event, and
\* nothing more once all of them are emitted.
C2_MessagesInOrder ==
    /\ IsPrefix(rd.out, ExpectedEvents(plan))
    /\ Quiescent => rd.out = ExpectedEvents(plan)

\* C2 witness: both messages of a two-message plan are emitted and every byte is
\* written, an empty last chunk still in the queue.
C2_Witness ==
    /\ Quiescent
    /\ Len(plan) = 2
    /\ plan[1] # plan[2]
    /\ rd.out = ExpectedEvents(plan)
    /\ Len(rd.queue) > 0

\* C3: no event emitted after clear() derives from bytes written before it: every
\* event in the log since the last clear() is made of bytes of the current epoch.
C3_NoEventFromClearedBytes ==
    \A i \in 1..Len(rd.out) : rd.out[i].eps \subseteq {rd.index}

\* C3 witness: clear() was called between two byte requests of a routine, which is
\* still suspended, and a message written after the clear() has been emitted.
C3_Witness ==
    /\ rd.index > 0
    /\ \E i \in DOMAIN rd.rts : rd.rts[i].routine < rd.index /\ rd.rts[i].pc # "mark"
    /\ Len(rd.out) > 0

\* C4: the bytes written after clear() are parsed as a fresh stream: the messages
\* written after it are emitted once each and unchanged, and no routine started
\* before the clear() consumes a byte written after it.
C4_FreshStreamAfterClear ==
    rd.index > 0 =>
        /\ IsPrefix(rd.out, ExpectedEvents(plan))
        /\ Quiescent => rd.out = ExpectedEvents(plan)
        /\ \A i \in DOMAIN rd.rts : rd.rts[i].routine < rd.index => rd.index \notin rd.rts[i].eps


\* The bytes the queue of reader r holds, from _queueHeadOffset on
Unconsumed(r) ==
    LET all == Flatten(r.queue)
    IN  SubSeq(all, r.queueHeadOffset + 1, Len(all))

\* The bytes written in this step
WrittenBytes == IF feed' = feed /\ pos' > pos THEN SubSeq(feed, pos + 1, pos') ELSE <<>>

\* The number of bytes routine rt has asked for at the await it is at
Wanted(rt) ==
    CASE rt.pc = "mark" -> 2
      [] rt.pc = "head" -> 6
      [] rt.pc = "chan" -> 1 + rt.chanLen
      [] rt.pc = "phead" -> 4
      [] rt.pc = "pdata" -> rt.psize

\* _queueLength counts the queued bytes, a fulfilled request holds as many bytes
\* as it asked for, a waiting one is in the list of requests with that length
QueueAccounts(r) ==
    /\ r.queueLength = Len(Flatten(r.queue)) - r.queueHeadOffset
    /\ r.queueHeadOffset >= 0
    /\ r.queue # <<>> => r.queueHeadOffset < Len(r.queue[1]) \/ r.queueHeadOffset = 0
    /\ \A rid \in Ready(r) : Len(r.rts[rid].buf) = Wanted(r.rts[rid])
    /\ \A i \in 1..Len(r.requests) :
           /\ r.requests[i].rid \in DOMAIN r.rts
           /\ r.rts[r.requests[i].rid].st = "wait"
           /\ r.requests[i].length = Wanted(r.rts[r.requests[i].rid])
    /\ r.requests # <<>> => r.queueLength < r.requests[1].length

\* C33: at every suspension point of the parse _queueLength is the size of the
\* queued buffers less _queueHeadOffset and the queue holds, from that offset
\* on, the bytes written and not yet consumed, in arrival order; a fulfilled
\* request for N bytes has got exactly the next N of them, and a request for
\* more bytes than are queued waits.
C33_QueueAccounting ==
    [][/\ QueueAccounts(rd')
       /\ IF rd'.index # rd.index THEN Unconsumed(rd') = <<>>
          ELSE LET avail == Unconsumed(rd) \o WrittenBytes
                   k == Len(avail) - rd'.queueLength
               IN  /\ k >= 0
                   /\ Unconsumed(rd') = SubSeq(avail, k + 1, Len(avail))
                   /\ k > 0 => \E rid \in Ready(rd') :
                                  /\ rd'.rts[rid].buf = SubSeq(avail, 1, k)
                                  /\ k = Wanted(rd'.rts[rid])
      ]_vars

\* C33 witness: a request was fulfilled from two buffers and left a part of the
\* second one in the queue, behind _queueHeadOffset, with a further buffer after it
C33_Witness ==
    /\ rd.queueHeadOffset > 0
    /\ Len(rd.queue) = 2
    /\ \E rid \in Ready(rd) : Len(rd.rts[rid].buf) > rd.queueHeadOffset

(***************************************************************************)
(* Properties of the codec.                                                *)
(***************************************************************************)
\* The Messages of the data model: a channel of 0..255 bytes, 0..255 payloads
InDataModel(m) == Len(Utf8Encode(m.channel)) <= 255 /\ Len(m.payloads) <= 255

RoundTrips == cOut.stage = "parsed" /\ cOut.ok /\ cOut.msg = cm

\* C5 as stated: parseMessage(serializeMessage(m)) = m for every Message of the
\* data model.
C5_RoundTripAny ==
    (cOut.stage \in {"threw", "parsed"} /\ InDataModel(cm)) => RoundTrips

\* C5 amended: parseMessage(serializeMessage(m)) = m for every Message of the
\* data model whose id fits 32 bits and whose payloads are each at most 2^24 - 1
\* bytes long when encoded.
C5_RoundTrip ==
    (/\ cOut.stage \in {"threw", "parsed"}
     /\ InDataModel(cm)
     /\ FitsUInt32(cm.id)
     /\ \A i \in 1..Len(cm.payloads) : BufLen(ToBuffer(cm.payloads[i])) <= Pow2(24) - 1)
        => RoundTrips

\* C5 witness: a message with a 255-byte channel and a Json payload round-trips.
C5_Witness ==
    /\ RoundTrips
    /\ Len(cm.channel) = 255
    /\ Len(cm.payloads) = 2
    /\ cm.payloads[1].type = PayloadJson
    /\ cm.payloads[2].type = PayloadBinary

=============================================================================
